---- MODULE Spec2Model ----
(***************************************************************************)
(* Verification model of mad-icon's icon generation:                       *)
(*   types/icon_generation_types.py   the category registry (enums,        *)
(*                                    get_flag_config)                     *)
(*   utilities/icon_generation_utils.py  source determination, directory   *)
(*                                    preparation, category processing     *)
(*                                                                         *)
(* Python values are modelled as follows.  None is the string "None";      *)
(* bytes are strings, b"" is "".  A Path is the sequence of its            *)
(* components.  A str that can carry several space separated tokens (the   *)
(* manifest purpose) is [type |-> "str", parts |-> <<tokens>>], a tuple is  *)
(* [type |-> "tuple", parts |-> <<elements>>].                              *)
(***************************************************************************)
EXTENDS Integers, Sequences, FiniteSets, TLC

VARIABLES
    probe,           \* the last call of a function of the registry / a helper
    pc,              \* position of the generation run
    cli_args,        \* the optional source image arguments (streams)
    base_icon,       \* the icon_image argument and what was loaded from it
    pwa_model,       \* the loaded data model
    runs,            \* what each determine_source_images call returned
    cat,             \* the process_icon_category call in progress
    html_tags,       \* process_icon_category: its html_tags list
    manifest_icons,  \* process_icon_category: its manifest_icons list
    files,           \* icon files the process_icon_category call has saved
    gen              \* the generate_icons invocation in progress

vars == <<probe, pc, cli_args, base_icon, pwa_model, runs, cat, html_tags,
          manifest_icons, files, gen>>

run_vars == <<pc, cli_args, base_icon, pwa_model, runs, cat, html_tags,
              manifest_icons, files, gen>>

None == "None"

(***************************************************************************)
(* Bounds of the model.                                                    *)
(***************************************************************************)
\* longest fallback walk that is followed, counted in hops
MaxHops == 3
\* number of determine_source_images calls in one behaviour
MaxRuns == 2
\* number of categories processed in one behaviour
MaxCategories == 2
\* longest html_tags list generate_output_files is called with
MaxTags == 3
\* longest manifest_icons list generate_output_files is called with
MaxEntries == 2

(***************************************************************************)
(* types/icon_generation_types.py : enums                                  *)
(***************************************************************************)
\* IconSourceKey.__members__ : member name -> value
IconSourceKey ==
    [BASE |-> "base", MASKED |-> "masked", MONOCHROME |-> "monochrome",
     DARK |-> "dark", TINTED |-> "tinted", TILE_RECTANGLE |-> "tile-rectangle"]

SourceKeys == {IconSourceKey[n] : n \in DOMAIN IconSourceKey}

\* IconDescriptiveName.__members__
IconDescriptiveName ==
    [APPLE_TOUCH |-> "Apple Touch", ANDROID_MASKED |-> "Android Masked",
     ANDROID_MONOCHROME |-> "Android Monochrome",
     APPLE_DARKMODE |-> "Apple Dark Mode", APPLE_TINTED |-> "Apple Tinted",
     HTML |-> "HTML", NO_ICONS |-> "No Icons", MACOS |-> "macOS",
     MANIFEST |-> "Manifest Json", MS_TILES |-> "MS Tiles"]

\* IconSizeGroup : the attribute path into the data model
IconSizeGroup ==
    [APPLE_TOUCH |-> "apple.icon_sizes", MACOS |-> "apple.macos_icon_sizes",
     MASKED |-> "android.masked_icon_sizes", MS_TILES |-> "mstile.sizes"]

\* ManifestPurpose
ManifestPurpose ==
    [MASKABLE |-> "maskable", MONOCHROME |-> "monochrome", ANY |-> "any",
     NOT_MANIFESTED |-> "not_manifested"]

\* IconGenerationFlag.__members__ : member name -> value
IconGenerationFlag ==
    [APPLE_TOUCH |-> "apple_touch", NO_ICONS |-> "no_icons", MASKED |-> "masked",
     MONOCHROME |-> "monochrome", DARKMODE |-> "darkmode", TINTED |-> "tinted",
     MACOS |-> "macos", MS_TILES |-> "ms_tiles", HTML |-> "html",
     MANIFEST |-> "manifest"]

Flags == {IconGenerationFlag[n] : n \in DOMAIN IconGenerationFlag}

\* flag.name : the member name of a flag value
flag_name(flag) == CHOOSE n \in DOMAIN IconGenerationFlag : IconGenerationFlag[n] = flag

\* dict.get(key, default) on a __members__ mapping
members_get(members, key, default) ==
    IF key \in DOMAIN members THEN members[key] ELSE default

\* a Python str without spaces, and a Python tuple of such strs
PyStr(s) == [type |-> "str", parts |-> <<s>>]
PyTuple(a, b) == [type |-> "tuple", parts |-> <<a, b>>]

\* f"{prefix}{name}" for the two prefixes descriptive_name builds
prefixed_name(prefix, name) ==
    CASE prefix = "ANDROID_" /\ name = "MASKED" -> "ANDROID_MASKED"
      [] prefix = "ANDROID_" /\ name = "MONOCHROME" -> "ANDROID_MONOCHROME"
      [] prefix = "APPLE_" /\ name = "APPLE_TOUCH" -> "APPLE_APPLE_TOUCH"
      [] prefix = "APPLE_" /\ name = "DARKMODE" -> "APPLE_DARKMODE"
      [] prefix = "APPLE_" /\ name = "TINTED" -> "APPLE_TINTED"
      [] OTHER -> "UNKNOWN"

fallback_strategy_tinted_to_base(key) ==
    CASE key = IconSourceKey.MASKED -> IconSourceKey.BASE
      [] key = IconSourceKey.DARK -> IconSourceKey.BASE
      [] key = IconSourceKey.TINTED -> IconSourceKey.BASE
      [] key = IconSourceKey.TILE_RECTANGLE -> IconSourceKey.BASE
      [] OTHER -> IconSourceKey.MASKED

\* IconSourceKey.fallback_strategy
fallback_strategy(key) ==
    CASE key = IconSourceKey.MASKED -> IconSourceKey.BASE
      [] key = IconSourceKey.DARK -> IconSourceKey.BASE
      [] key = IconSourceKey.TINTED -> IconSourceKey.DARK
      [] key = IconSourceKey.TILE_RECTANGLE -> IconSourceKey.BASE
      [] OTHER -> IconSourceKey.MASKED

\* IconGenerationFlag.is_not_icon_flag
is_not_icon_flag(flag) ==
    flag \in {IconGenerationFlag.NO_ICONS, IconGenerationFlag.MANIFEST,
              IconGenerationFlag.HTML}

ImageFlags == {f \in Flags : ~is_not_icon_flag(f)}

\* IconGenerationFlag.descriptive_name
descriptive_name(flag) ==
    CASE flag \in {IconGenerationFlag.MASKED, IconGenerationFlag.MONOCHROME} ->
           members_get(IconDescriptiveName, prefixed_name("ANDROID_", flag_name(flag)),
                       IconDescriptiveName.ANDROID_MASKED)
      [] flag \in {IconGenerationFlag.APPLE_TOUCH, IconGenerationFlag.DARKMODE,
                   IconGenerationFlag.TINTED} ->
           members_get(IconDescriptiveName, prefixed_name("APPLE_", flag_name(flag)),
                       IconDescriptiveName.APPLE_TOUCH)
      [] OTHER -> IconDescriptiveName[flag_name(flag)]

\* IconGenerationFlag.source_key
source_key(flag) ==
    CASE is_not_icon_flag(flag) -> None
      [] flag = IconGenerationFlag.MS_TILES -> IconSourceKey.TILE_RECTANGLE
      [] flag \in {IconGenerationFlag.MACOS, IconGenerationFlag.APPLE_TOUCH} ->
           IconSourceKey.BASE
      [] flag = IconGenerationFlag.DARKMODE -> IconSourceKey.DARK
      [] OTHER -> members_get(IconSourceKey, flag_name(flag), IconSourceKey.MASKED)

\* IconGenerationFlag.model_attr
model_attr(flag) ==
    CASE is_not_icon_flag(flag) -> None
      [] flag = IconGenerationFlag.MASKED -> IconSizeGroup.MASKED
      [] flag = IconGenerationFlag.MACOS -> IconSizeGroup.MACOS
      [] flag = IconGenerationFlag.MS_TILES -> IconSizeGroup.MS_TILES
      [] OTHER -> IconSizeGroup.APPLE_TOUCH

\* IconGenerationFlag.subdir
subdir(flag) ==
    CASE flag = IconGenerationFlag.MASKED -> "masked"
      [] flag = IconGenerationFlag.MONOCHROME -> "masked-monochrome"
      [] flag = IconGenerationFlag.DARKMODE -> "apple-dark"
      [] flag = IconGenerationFlag.TINTED -> "tinted"
      [] flag = IconGenerationFlag.MACOS -> "macos"
      [] flag = IconGenerationFlag.MS_TILES -> "mstile"
      [] flag = IconGenerationFlag.APPLE_TOUCH -> ""
      [] OTHER -> "../"

\* ProcessingRequirements(...)
ProcessingRequirements(desat, opaque, trans, clip) ==
    [needs_desat |-> desat, needs_opaque |-> opaque, needs_trans |-> trans,
     needs_clip |-> clip]

processing_requirements_tinted_opaque(flag) ==
    CASE flag = IconGenerationFlag.MASKED ->
           ProcessingRequirements(FALSE, TRUE, FALSE, FALSE)
      [] flag = IconGenerationFlag.MONOCHROME ->
           ProcessingRequirements(TRUE, TRUE, FALSE, FALSE)
      [] flag = IconGenerationFlag.DARKMODE ->
           ProcessingRequirements(FALSE, FALSE, TRUE, FALSE)
      [] flag = IconGenerationFlag.TINTED ->
           ProcessingRequirements(TRUE, TRUE, FALSE, FALSE)
      [] flag = IconGenerationFlag.MACOS ->
           ProcessingRequirements(FALSE, TRUE, FALSE, TRUE)
      [] flag = IconGenerationFlag.MS_TILES ->
           ProcessingRequirements(FALSE, TRUE, FALSE, FALSE)
      [] OTHER -> ProcessingRequirements(FALSE, TRUE, FALSE, FALSE)

\* IconGenerationFlag.processing_requirements (only read for image flags)
processing_requirements(flag) ==
    CASE flag = IconGenerationFlag.MASKED ->
           ProcessingRequirements(FALSE, TRUE, FALSE, FALSE)
      [] flag = IconGenerationFlag.MONOCHROME ->
           ProcessingRequirements(TRUE, TRUE, FALSE, FALSE)
      [] flag = IconGenerationFlag.DARKMODE ->
           ProcessingRequirements(FALSE, FALSE, TRUE, FALSE)
      [] flag = IconGenerationFlag.TINTED ->
           ProcessingRequirements(TRUE, FALSE, TRUE, FALSE)
      [] flag = IconGenerationFlag.MACOS ->
           ProcessingRequirements(FALSE, TRUE, FALSE, TRUE)
      [] flag = IconGenerationFlag.MS_TILES ->
           ProcessingRequirements(FALSE, TRUE, FALSE, FALSE)
      [] OTHER -> ProcessingRequirements(FALSE, TRUE, FALSE, FALSE)

\* IconGenerationFlag.manifest_purpose (only read for image flags)
manifest_purpose(flag) ==
    CASE flag = IconGenerationFlag.MASKED -> PyStr(ManifestPurpose.MASKABLE)
      [] flag = IconGenerationFlag.MONOCHROME ->
           PyTuple(ManifestPurpose.MASKABLE, ManifestPurpose.MONOCHROME)
      [] flag = IconGenerationFlag.TINTED -> PyStr(ManifestPurpose.MONOCHROME)
      [] flag = IconGenerationFlag.MACOS -> PyStr(ManifestPurpose.ANY)
      [] OTHER -> PyStr(ManifestPurpose.NOT_MANIFESTED)

get_flag_config_image_keys_for_all(flag) ==
    [flag_key |-> flag, name |-> descriptive_name(flag), subdir |-> subdir(flag),
     is_icon_flag |-> ~is_not_icon_flag(flag),
     source_key |-> source_key(flag),
     model_attr |-> model_attr(flag),
     purpose |-> manifest_purpose(flag)]

\* get_flag_config : the IconGenerationConfig of a flag (a total=False
\* TypedDict: the non-image flags carry the first four keys only)
get_flag_config(flag) ==
    IF is_not_icon_flag(flag)
    THEN [flag_key |-> flag, name |-> descriptive_name(flag), subdir |-> subdir(flag),
          is_icon_flag |-> FALSE]
    ELSE [flag_key |-> flag, name |-> descriptive_name(flag), subdir |-> subdir(flag),
          is_icon_flag |-> TRUE,
          source_key |-> source_key(flag),
          model_attr |-> model_attr(flag),
          purpose |-> manifest_purpose(flag),
          needs_desat |-> processing_requirements(flag).needs_desat,
          needs_opaque |-> processing_requirements(flag).needs_opaque,
          needs_trans |-> processing_requirements(flag).needs_trans,
          needs_clip |-> processing_requirements(flag).needs_clip]

(***************************************************************************)
(* utilities/icon_generation_utils.py : pure helpers                       *)
(***************************************************************************)
\* pathlib: path / segment  (path / "" is path itself)
path_join(path, segment) == IF segment = "" THEN path ELSE Append(path, segment)

\* pathlib: path.parent
path_parent(path) == SubSeq(path, 1, Len(path) - 1)

is_prefix(p, q) == Len(p) <= Len(q) /\ SubSeq(q, 1, Len(p)) = p

\* the values generate_icons passes for the path options (their defaults)
cwd == <<"cwd">>
default_destination_dir == path_join(cwd, "assets")
default_prefix == "apple-touch-icon"

\* the config dictionaries prepare_output_directories is called with
PrepDirConfigs ==
    [destination_dir : {default_destination_dir},
     icon_dir_name : {default_prefix},
     html_destination : {cwd, path_join(cwd, "site")},
     generate_masked_icons : BOOLEAN, generate_darkmode_icons : BOOLEAN,
     generate_tinted_icons : BOOLEAN, generate_macos_icons : BOOLEAN,
     generate_ms_tiles : BOOLEAN, generate_html : BOOLEAN,
     generate_manifest : BOOLEAN]

\* generate_icons, prep_dir_config: the generate_* key that stands for a
\* category (Apple Touch icons go to base_icon_path, which is always created)
category_enabled(config, flag) ==
    CASE flag \in {IconGenerationFlag.MASKED, IconGenerationFlag.MONOCHROME} ->
           config.generate_masked_icons
      [] flag = IconGenerationFlag.DARKMODE -> config.generate_darkmode_icons
      [] flag = IconGenerationFlag.TINTED -> config.generate_tinted_icons
      [] flag = IconGenerationFlag.MACOS -> config.generate_macos_icons
      [] flag = IconGenerationFlag.MS_TILES -> config.generate_ms_tiles
      [] OTHER -> TRUE

\* list.extend / list.append guarded by a flag
extend_if(cond, list, items) == IF cond THEN list \o items ELSE list

\* prepare_output_directories : the list dirs_to_create handed to make_dirs
prepare_dirs_to_create(config) ==
    LET base_icon_path == path_join(config.destination_dir, config.icon_dir_name)
        masked_path == path_join(base_icon_path, "masked")
        d0 == <<config.destination_dir, base_icon_path>>
        d1 == extend_if(config.generate_masked_icons, d0,
                        <<masked_path, path_join(masked_path, "monochrome")>>)
        d2 == extend_if(config.generate_darkmode_icons, d1,
                        <<path_join(base_icon_path, "darkmode")>>)
        d3 == extend_if(config.generate_tinted_icons, d2,
                        <<path_join(base_icon_path, "tinted")>>)
        d4 == extend_if(config.generate_macos_icons, d3,
                        <<path_join(base_icon_path, "macos")>>)
        d5 == extend_if(config.generate_ms_tiles, d4,
                        <<path_join(base_icon_path, "mstile")>>)
    IN  extend_if((config.generate_html \/ config.generate_manifest)
                    /\ \A i \in 1..Len(d5) : d5[i] # config.html_destination,
                  d5, <<config.html_destination>>)

\* prepare_output_directories : the returned output_paths (the three entries
\* process_icon_category reads)
prepare_output_paths(config) ==
    [destination_dir |-> config.destination_dir,
     html_dest_path |-> config.html_destination,
     base_icon_path |-> path_join(config.destination_dir, config.icon_dir_name)]

\* make_dirs with mkdir(parents=True, exist_ok=True): every listed directory
\* and every ancestor of it exists afterwards
make_dirs(dirs) ==
    UNION {{SubSeq(dirs[i], 1, n) : n \in 1..Len(dirs[i])} : i \in 1..Len(dirs)}

\* setup_output_paths : (output_dir, destination_dir_parent); the third
\* component, icon_name_prefix, is icon_name_prefix_of below
setup_output_dir(base_icon_path, sub) ==
    IF sub # "" THEN path_join(base_icon_path, sub) ELSE base_icon_path

\* cat_name.lower().replace(" ", "-") for the descriptive names
category_slug(cat_name) ==
    CASE cat_name = "Apple Touch" -> "apple-touch"
      [] cat_name = "Android Masked" -> "android-masked"
      [] cat_name = "Android Monochrome" -> "android-monochrome"
      [] cat_name = "Apple Dark Mode" -> "apple-dark-mode"
      [] cat_name = "Apple Tinted" -> "apple-tinted"
      [] cat_name = "macOS" -> "macos"
      [] cat_name = "MS Tiles" -> "ms-tiles"
      [] cat_name = "HTML" -> "html"
      [] cat_name = "No Icons" -> "no-icons"
      [] OTHER -> "manifest-json"

icon_name_prefix_of_always_slug(icon_name, cat_name) ==
    <<icon_name, category_slug(cat_name)>>

\* setup_output_paths : icon_name_prefix, as the list of its "-" joined parts
icon_name_prefix_of(icon_name, cat_name) ==
    IF cat_name = "Apple Touch" THEN <<icon_name>>
    ELSE <<icon_name, category_slug(cat_name)>>

\* f"{icon_name_prefix}-{width}x{height}.png"
base_filename(icon_name_prefix, width, height) ==
    [prefix |-> icon_name_prefix, width |-> width, height |-> height, ext |-> "png"]

\* get_relative_path : (relative_path, warning?) or a ValueError
get_relative_path(output_path, html_destination, destination_dir_parent) ==
    IF is_prefix(html_destination, output_path)
    THEN [path |-> SubSeq(output_path, Len(html_destination) + 1, Len(output_path)),
          warning |-> FALSE, error |-> None]
    ELSE IF is_prefix(destination_dir_parent, output_path)
    THEN [path |-> SubSeq(output_path, Len(destination_dir_parent) + 1, Len(output_path)),
          warning |-> TRUE, error |-> None]
    ELSE [path |-> <<>>, warning |-> FALSE, error |-> "ValueError"]

NoTag == [elem |-> None, rel |-> None, name |-> None, width |-> 0, height |-> 0,
          target |-> <<>>, media |-> None]

generate_html_tag_always_square(cat_name, relative_path, width, height) ==
    CASE cat_name = "Apple Touch" ->
           [elem |-> "link", rel |-> "apple-touch-icon", name |-> None,
            width |-> width, height |-> height, target |-> relative_path,
            media |-> None]
      [] cat_name = "Apple Dark Mode" ->
           [elem |-> "link", rel |-> "apple-touch-icon", name |-> None,
            width |-> width, height |-> height, target |-> relative_path,
            media |-> "(prefers-color-scheme: dark)"]
      [] cat_name = "MS Tiles" ->
           [elem |-> "meta", rel |-> None, name |-> "msapplication-square",
            width |-> width, height |-> height, target |-> relative_path,
            media |-> None]
      [] OTHER -> NoTag

\* generate_html_tag : the tag as a record.  elem is the element, target the
\* href (link) or content (meta) path, width/height the numbers of sizes="WxH"
\* (link) or of name="{name}{W}x{H}logo" (meta).  None is NoTag.
generate_html_tag(cat_name, relative_path, width, height) ==
    CASE cat_name = "Apple Touch" ->
           [elem |-> "link", rel |-> "apple-touch-icon", name |-> None,
            width |-> width, height |-> height, target |-> relative_path,
            media |-> None]
      [] cat_name = "Apple Dark Mode" ->
           [elem |-> "link", rel |-> "apple-touch-icon", name |-> None,
            width |-> width, height |-> height, target |-> relative_path,
            media |-> "(prefers-color-scheme: dark)"]
      [] cat_name = "MS Tiles" ->
           [elem |-> "meta", rel |-> None,
            name |-> IF width = height THEN "msapplication-square"
                     ELSE "msapplication-wide",
            width |-> width, height |-> height, target |-> relative_path,
            media |-> None]
      [] OTHER -> NoTag

NoEntry == [type |-> None]

\* generate_manifest_entry : the entry dict, or None (NoEntry)
generate_manifest_entry(cat_name, relative_path, size_fmt, manifest_purp) ==
    IF cat_name \notin {"Apple Dark Mode", "Apple Touch"}
    THEN IF manifest_purp # PyStr("any")
         THEN [src |-> relative_path, sizes |-> size_fmt, type |-> "image/png",
               purpose |-> manifest_purp]
         ELSE [src |-> relative_path, sizes |-> size_fmt, type |-> "image/png"]
    ELSE NoEntry

(***************************************************************************)
(* utilities/icon_generation_utils.py : reading the source images          *)
(***************************************************************************)
\* A binary stream argument (typer.FileBinaryRead).  present = FALSE is the
\* argument None.  consumed: the read position is at the end of the file.
Stream(data, ext) ==
    [present |-> TRUE, closed |-> FALSE, consumed |-> FALSE, data |-> data, ext |-> ext]

NoStream ==
    [present |-> FALSE, closed |-> FALSE, consumed |-> FALSE, data |-> "", ext |-> ""]

\* file_arg.read() : the bytes from the read position to the end
stream_read(file_arg) == IF file_arg.consumed THEN "" ELSE file_arg.data

\* the stream after file_arg.read()
stream_after_read(file_arg) == [file_arg EXCEPT !.consumed = TRUE]

\* "svg" if Path(name).suffix.lower() == ".svg" else "raster"
image_type_of(ext) == IF ext = "svg" THEN "svg" ELSE "raster"

\* truthiness of a bytes | None value
truthy(data) == data # None /\ data # ""

\* read_source_from_arg : (data, image_type)
read_source_from_arg(file_arg) ==
    IF ~(file_arg.present /\ ~file_arg.closed)
    THEN [data |-> None, image_type |-> ""]
    ELSE [data |-> stream_read(file_arg), image_type |-> image_type_of(file_arg.ext)]

\* the stream argument after read_source_from_arg
arg_after_read_source(file_arg) ==
    IF ~(file_arg.present /\ ~file_arg.closed) THEN file_arg
    ELSE stream_after_read(file_arg)

\* get_source_images_from_args : arg_to_category, category -> CLI argument key
arg_to_category ==
    [masked_image |-> "masked", masked_image_monochrome |-> "monochrome",
     darkmode_image |-> "dark", tinted_image |-> "tinted",
     tile_rectangle_image |-> "tile_rect"]

ArgKeys == DOMAIN arg_to_category

\* the keys of the source_data / source_type dictionaries
Categories == {"base"} \cup {arg_to_category[a] : a \in ArgKeys}

arg_of_category(category) == CHOOSE a \in ArgKeys : arg_to_category[a] = category

\* dict.get(key) : None for a key the dictionary does not have
dict_get(dict, key) == IF key \in DOMAIN dict THEN dict[key] ELSE None

\* determine_source_images : the returned (source_data, source_type).  Step 1
\* is get_source_images_from_args, step 2 (fallback) is a TODO in the source,
\* step 3 (perform_svg_analysis) only reads the two dictionaries.
determine_source_images(args, base_icon_data, base_icon_type) ==
    LET read(c) == read_source_from_arg(args[arg_of_category(c)])
    IN  [data |-> [c \in Categories |->
                     IF c = "base" THEN base_icon_data
                     ELSE IF truthy(read(c).data) THEN read(c).data ELSE None],
         type |-> [c \in Categories |->
                     IF c = "base" THEN base_icon_type
                     ELSE IF truthy(read(c).data) THEN read(c).image_type ELSE ""]]

\* get_masked_image_data as called by validate_and_load_base_icon: the masked
\* stream after the padding check read it (a read error is caught)
arg_after_padding_check(file_arg) ==
    IF file_arg.present /\ ~file_arg.closed THEN stream_after_read(file_arg)
    ELSE file_arg

(***************************************************************************)
(* utilities/icon_generation_utils.py : processing one category            *)
(***************************************************************************)
\* the loaded data model (MadIconModel), as attribute path -> list of
\* Resolution, in the order of the lists of the packaged catalog
PwaModel(touch, macos, masked, mstile) ==
    [m \in {IconSizeGroup.APPLE_TOUCH, IconSizeGroup.MACOS, IconSizeGroup.MASKED,
            IconSizeGroup.MS_TILES} |->
        CASE m = IconSizeGroup.APPLE_TOUCH -> touch
          [] m = IconSizeGroup.MACOS -> macos
          [] m = IconSizeGroup.MASKED -> masked
          [] OTHER -> mstile]

TouchSizes == <<<<120, 120>>, <<180, 180>>>>
MacosSizes == <<<<128, 128>>>>
MaskedSizes == <<<<192, 192>>>>
MsTileSizes == <<<<150, 150>>, <<310, 150>>>>

PwaModels ==
    {PwaModel(TouchSizes, MacosSizes, MaskedSizes, MsTileSizes),
     PwaModel(TouchSizes, <<>>, <<>>, MsTileSizes),
     PwaModel(<<>>, MacosSizes, MaskedSizes, <<>>)}

\* MadIconModel.size_data : size group -> attribute path of the data model
size_data ==
    [touch_icons |-> "apple.icon_sizes", macos_icons |-> "apple.macos_icon_sizes",
     ms_tiles |-> "mstile.sizes", masked_icons |-> "android.masked_icon_sizes"]

\* get_target_sizes : the (width, height) list, or None.  None is modelled
\* as the empty list: the caller only tests `if not target_sizes`.
get_target_sizes(model, attr) ==
    IF attr \notin DOMAIN model THEN <<>>
    ELSE model[attr]

\* the category_config dictionary process_icon_category is called with for a
\* flag: the keys extract_category_params reads, the values of the registry
category_config_for(flag) ==
    LET config == get_flag_config(flag)
    IN  [name |-> config.name, source_key |-> config.source_key,
         subdir |-> config.subdir, model_attr |-> config.model_attr,
         needs_desat |-> config.needs_desat, needs_opaque |-> config.needs_opaque,
         needs_trans |-> config.needs_trans, needs_clip |-> config.needs_clip,
         manifest_purp |-> config.purpose]

\* extract_category_params
extract_category_params(category_config) ==
    [cat_name |-> category_config.name, src_key |-> category_config.source_key,
     subdir |-> category_config.subdir, model_attr |-> category_config.model_attr,
     needs_desat |-> category_config.needs_desat,
     needs_opaque |-> category_config.needs_opaque,
     needs_trans |-> category_config.needs_trans,
     needs_clip |-> category_config.needs_clip,
     manifest_purp |-> category_config.manifest_purp]

\* cli_config.get("icon_name", "icon")
default_icon_name == "icon"

\* the output_paths process_icon_category is called with
default_output_paths ==
    prepare_output_paths([destination_dir |-> default_destination_dir,
                          icon_dir_name |-> default_prefix,
                          html_destination |-> cwd])

\* process_single_icon : the output_path of one size
output_path_of(params, output_paths, width, height) ==
    [dir |-> setup_output_dir(output_paths.base_icon_path, params.subdir),
     name |-> base_filename(icon_name_prefix_of(default_icon_name, params.cat_name),
                            width, height)]

\* process_single_icon : the relative path put into the tag and the entry
relative_path_of(output_path, output_paths) ==
    get_relative_path(Append(output_path.dir, output_path.name),
                      output_paths.html_dest_path,
                      path_parent(output_paths.destination_dir))

process_single_icon_metadata_before_save(params, output_paths, width, height, outcome) ==
    LET output_path == output_path_of(params, output_paths, width, height)
        rel == relative_path_of(output_path, output_paths)
        size_fmt == <<width, height>>
    IN  IF outcome = "transform_error" \/ rel.error # None
        THEN [html_tag |-> NoTag, manifest_entry |-> NoEntry, saved |-> {}]
        ELSE [html_tag |-> generate_html_tag(params.cat_name, rel.path, width, height),
              manifest_entry |-> generate_manifest_entry(params.cat_name, rel.path,
                                                         size_fmt, params.manifest_purp),
              saved |-> IF outcome = "ok" THEN {output_path} ELSE {}]

\* process_single_icon : (html_tag, manifest_entry) and whether the file was
\* saved.  outcome is what the image library did: "ok", "transform_error"
\* (process_*_icon returned None) or "post_error" (post-processing or save
\* raised).
process_single_icon(params, output_paths, width, height, outcome) ==
    LET output_path == output_path_of(params, output_paths, width, height)
        rel == relative_path_of(output_path, output_paths)
        size_fmt == <<width, height>>
    IN  IF outcome # "ok"
        THEN [html_tag |-> NoTag, manifest_entry |-> NoEntry, saved |-> {}]
        ELSE IF rel.error # None
        THEN [html_tag |-> NoTag, manifest_entry |-> NoEntry, saved |-> {output_path}]
        ELSE [html_tag |-> generate_html_tag(params.cat_name, rel.path, width, height),
              manifest_entry |-> generate_manifest_entry(params.cat_name, rel.path,
                                                         size_fmt, params.manifest_purp),
              saved |-> {output_path}]

Outcomes == {"ok", "transform_error", "post_error"}

(***************************************************************************)
(* The generation run: load the base icon, determine the sources, process  *)
(* categories.                                                             *)
(***************************************************************************)
\* no generate_icons invocation
NoInvocation == [pc |-> "none"]

NoCategory ==
    [flag |-> None, state |-> "idle", skipped |-> None, target_sizes |-> <<>>,
     idx |-> 0, count |-> 0, attempts |-> <<>>]

\* the streams a run can be started with
MaskedArgs ==
    {NoStream, Stream("masked-bytes", "svg"), Stream("masked-bytes", "png"),
     Stream("", "png"), [Stream("masked-bytes", "png") EXCEPT !.closed = TRUE]}

CliArgs ==
    [masked_image : MaskedArgs,
     masked_image_monochrome : {NoStream, Stream("monochrome-bytes", "png")},
     darkmode_image : {NoStream, Stream("dark-bytes", "svg")},
     tinted_image : {NoStream, Stream("tinted-bytes", "png")},
     tile_rectangle_image : {NoStream, Stream("tile-bytes", "png")}]

BaseArgs == {Stream("base-bytes", "svg"), Stream("base-bytes", "png")}

RunInit ==
    /\ pc = "start"
    /\ cli_args \in CliArgs
    /\ base_icon \in [arg : BaseArgs, data : {None}, type : {""}]
    /\ pwa_model \in PwaModels
    /\ runs = <<>>
    /\ cat = NoCategory
    /\ html_tags = <<>>
    /\ manifest_icons = <<>>
    /\ files = {}
    /\ gen = NoInvocation

Init ==
    /\ probe = [fn |-> "none"]
    /\ RunInit

\* validate_and_load_base_icon(icon_image_arg, masked_image_arg,
\*                             generate_masked_icons=...)
ValidateAndLoadBaseIcon(generate_masked_icons) ==
    /\ pc = "start"
    /\ base_icon' = [arg |-> stream_after_read(base_icon.arg),
                     data |-> stream_read(base_icon.arg),
                     type |-> image_type_of(base_icon.arg.ext)]
    /\ cli_args' = IF generate_masked_icons
                   THEN [cli_args EXCEPT
                           !.masked_image = arg_after_padding_check(cli_args.masked_image)]
                   ELSE cli_args
    /\ pc' = "validated"
    /\ UNCHANGED <<probe, pwa_model, runs, cat, html_tags, manifest_icons, files, gen>>

\* determine_source_images(cli_args, base_icon_data, base_icon_type)
DetermineSourceImages ==
    /\ pc \in {"validated", "resolved"}
    /\ Len(runs) < MaxRuns
    /\ runs' = Append(runs, determine_source_images(cli_args, base_icon.data,
                                                    base_icon.type))
    /\ cli_args' = [a \in ArgKeys |-> arg_after_read_source(cli_args[a])]
    /\ pc' = "resolved"
    /\ UNCHANGED <<probe, base_icon, pwa_model, cat, html_tags, manifest_icons, files, gen>>

source_data == runs[Len(runs)].data
source_type == runs[Len(runs)].type

process_icon_category_entry_no_source_check(flag) ==
    LET params == extract_category_params(category_config_for(flag))
        target_sizes == get_target_sizes(pwa_model, params.model_attr)
    IN  IF target_sizes = <<>>
        THEN [flag |-> flag, state |-> "returned", skipped |-> "no_sizes",
              target_sizes |-> <<>>, idx |-> 0, count |-> cat.count + 1,
              attempts |-> <<>>]
        ELSE [flag |-> flag, state |-> "loop", skipped |-> None,
              target_sizes |-> target_sizes, idx |-> 1, count |-> cat.count + 1,
              attempts |-> <<>>]

\* process_icon_category, from its entry to the first iteration of the loop
\* over the sizes: the two early returns
process_icon_category_entry(flag) ==
    LET params == extract_category_params(category_config_for(flag))
        current_source_data == dict_get(source_data, params.src_key)
        target_sizes == get_target_sizes(pwa_model, params.model_attr)
    IN  IF ~truthy(current_source_data)
        THEN [flag |-> flag, state |-> "returned", skipped |-> "no_source",
              target_sizes |-> <<>>, idx |-> 0, count |-> cat.count + 1,
              attempts |-> <<>>]
        ELSE IF target_sizes = <<>>
        THEN [flag |-> flag, state |-> "returned", skipped |-> "no_sizes",
              target_sizes |-> <<>>, idx |-> 0, count |-> cat.count + 1,
              attempts |-> <<>>]
        ELSE [flag |-> flag, state |-> "loop", skipped |-> None,
              target_sizes |-> target_sizes, idx |-> 1, count |-> cat.count + 1,
              attempts |-> <<>>]

\* process_icon_category(category_config, ...) is called for an image flag
ProcessIconCategory(flag) ==
    /\ pc \in {"resolved", "processing"}
    /\ cat.state \in {"idle", "returned"}
    /\ cat.count < MaxCategories
    /\ cat' = process_icon_category_entry(flag)
    /\ html_tags' = <<>>
    /\ manifest_icons' = <<>>
    /\ files' = {}
    /\ pc' = "processing"
    /\ UNCHANGED <<probe, cli_args, base_icon, pwa_model, runs, gen>>

process_icon_category_step_stop_on_failure(c, outcome) ==
    [c EXCEPT !.idx = c.idx + 1,
              !.attempts = Append(@, [size |-> c.target_sizes[c.idx],
                                      outcome |-> outcome]),
              !.state = IF c.idx = Len(c.target_sizes) \/ outcome # "ok"
                        THEN "returned" ELSE "loop"]

\* process_icon_category, `for width, height in target_sizes`: the loop
\* variable moves to the next size whatever process_single_icon did with this
\* one (both functions catch Exception); the function returns after the last
\* size.  attempts records the sizes process_single_icon was called for.
process_icon_category_step(c, outcome) ==
    [c EXCEPT !.idx = c.idx + 1,
              !.attempts = Append(@, [size |-> c.target_sizes[c.idx],
                                      outcome |-> outcome]),
              !.state = IF c.idx = Len(c.target_sizes) THEN "returned" ELSE "loop"]

\* one iteration of the loop of process_icon_category: process_single_icon
\* for the next size, and the two `append`s
ProcessSingleIcon(outcome) ==
    /\ cat.state = "loop"
    /\ LET params == extract_category_params(category_config_for(cat.flag))
           size == cat.target_sizes[cat.idx]
           r == process_single_icon(params, default_output_paths, size[1], size[2],
                                    outcome)
       IN  /\ html_tags' = IF r.html_tag # NoTag THEN Append(html_tags, r.html_tag)
                           ELSE html_tags
           /\ manifest_icons' = IF r.manifest_entry # NoEntry
                                THEN Append(manifest_icons, r.manifest_entry)
                                ELSE manifest_icons
           /\ files' = files \cup r.saved
    /\ cat' = process_icon_category_step(cat, outcome)
    /\ UNCHANGED <<probe, pc, cli_args, base_icon, pwa_model, runs, gen>>

(***************************************************************************)
(* utilities/image_processing.py and apply_post_processing.  A Pillow      *)
(* image is [mode, alpha, gray, size]: alpha is "none" for a mode without  *)
(* an alpha channel, "opaque" when every pixel has alpha 255 and           *)
(* "transparent" otherwise; gray says every pixel is a shade of gray.      *)
(***************************************************************************)
PilImage(mode, alpha, gray, size) ==
    [mode |-> mode, alpha |-> alpha, gray |-> gray, size |-> size]

\* Image.convert(mode) for the target modes the code uses
pil_convert(image, mode) ==
    CASE mode = "RGBA" ->
           [image EXCEPT !.mode = "RGBA",
                         !.alpha = IF image.alpha = "none" THEN "opaque" ELSE @]
      [] mode = "L" -> [image EXCEPT !.mode = "L", !.alpha = "none", !.gray = TRUE]
      [] OTHER -> [image EXCEPT !.mode = mode, !.alpha = "none"]

\* desaturate_image : ImageOps.grayscale(image).convert("RGBA")
desaturate_image(image) == pil_convert(pil_convert(image, "L"), "RGBA")

\* _convert_rgba_to_rgb_with_background : paste on an opaque background,
\* then convert("RGB")
convert_rgba_to_rgb_with_background(image) ==
    pil_convert(IF image.mode # "RGBA" THEN pil_convert(image, "RGBA") ELSE image,
                "RGB")

\* ensure_opaque_background(image, "white")
ensure_opaque_background(image) ==
    IF image.mode = "RGB" THEN image
    ELSE IF image.mode = "RGBA" THEN convert_rgba_to_rgb_with_background(image)
    ELSE convert_rgba_to_rgb_with_background(pil_convert(image, "RGBA"))

\* ensure_transparent_background
ensure_transparent_background(image) ==
    IF image.mode # "RGBA" THEN pil_convert(image, "RGBA") ELSE image

apply_post_processing_trans_first(img, needs_desat, needs_opaque, needs_trans) ==
    LET d == IF needs_desat
             THEN [img |-> desaturate_image(img), steps |-> <<"desaturate">>]
             ELSE [img |-> img, steps |-> <<>>]
    IN  IF needs_trans
        THEN [img |-> ensure_transparent_background(d.img),
              steps |-> Append(d.steps, "transparent")]
        ELSE IF needs_opaque
        THEN [img |-> ensure_opaque_background(d.img),
              steps |-> Append(d.steps, "opaque")]
        ELSE d

\* apply_post_processing : the returned image and the steps that ran, in
\* the order they ran
apply_post_processing(img, needs_desat, needs_opaque, needs_trans) ==
    LET d == IF needs_desat
             THEN [img |-> desaturate_image(img), steps |-> <<"desaturate">>]
             ELSE [img |-> img, steps |-> <<>>]
    IN  IF needs_opaque
        THEN [img |-> ensure_opaque_background(d.img),
              steps |-> Append(d.steps, "opaque")]
        ELSE IF needs_trans
        THEN [img |-> ensure_transparent_background(d.img),
              steps |-> Append(d.steps, "transparent")]
        ELSE d

\* the images Image.open can give: a mode, with or without transparency
PilImages ==
    {PilImage("RGB", "none", FALSE, <<512, 512>>),
     PilImage("RGBA", "opaque", FALSE, <<512, 512>>),
     PilImage("RGBA", "transparent", FALSE, <<512, 512>>),
     PilImage("L", "none", TRUE, <<512, 512>>),
     PilImage("LA", "transparent", TRUE, <<512, 512>>),
     PilImage("P", "none", FALSE, <<512, 512>>),
     PilImage("CMYK", "none", FALSE, <<512, 512>>)}

(***************************************************************************)
(* models/resolution.py : Resolution, a frozen dataclass with the fields   *)
(* height and width, its own __init__ and __hash__ and the dataclass's     *)
(* __eq__.                                                                 *)
(***************************************************************************)
\* the largest side a probe constructs a Resolution from
MaxSide == 3

Resolution_no_swap(height, width) ==
    IF height <= 0 \/ width <= 0 THEN [raised |-> "ValueError"]
    ELSE [raised |-> None, height |-> height, width |-> width]

\* Resolution.__init__(height, width)
Resolution(height, width) ==
    IF height <= 0 \/ width <= 0 THEN [raised |-> "ValueError"]
    ELSE IF height > width
    THEN [raised |-> None, height |-> width, width |-> height]
    ELSE [raised |-> None, height |-> height, width |-> width]

\* hash of a tuple of two ints: a function of the items in their order,
\* of bounded width (8 bits), so that different tuples can share a hash
tuple_hash(t) == (31 * (31 * 7 + t[1]) + t[2]) % 256

\* Resolution.__hash__ : hash((self.height, self.width))
Resolution_hash(self) == tuple_hash(<<self.height, self.width>>)

\* the dataclass's __eq__ : the tuples of the fields are equal
Resolution_eq(self, other) ==
    <<self.height, self.width>> = <<other.height, other.width>>

(***************************************************************************)
(* models/resolution.py : from_number_pair.  A str is the sequence of its  *)
(* characters; a tuple is [type |-> "tuple", items |-> <<a, b>>].          *)
(***************************************************************************)
\* the longest str a probe parses
MaxStrLen == 5

\* the characters of the probed strs: digits, the two separators, a space,
\* a letter, an underscore and a minus sign
NumberPairChars == {"0", "1", "x", ":", " ", "a", "_", "-"}

IsDigit(c) == c \in {"0", "1"}

\* str.count(ch)
RECURSIVE str_count(_, _)
str_count(s, ch) ==
    IF s = <<>> THEN 0
    ELSE (IF Head(s) = ch THEN 1 ELSE 0) + str_count(Tail(s), ch)

\* str.replace(ch, "")
RECURSIVE str_remove(_, _)
str_remove(s, ch) ==
    IF s = <<>> THEN <<>>
    ELSE IF Head(s) = ch THEN str_remove(Tail(s), ch)
    ELSE <<Head(s)>> \o str_remove(Tail(s), ch)

\* ch in s
str_contains(s, ch) == \E i \in 1..Len(s) : s[i] = ch

\* str.split(sep) for a one-character separator
RECURSIVE str_split(_, _)
str_split(s, sep) ==
    IF ~str_contains(s, sep) THEN <<s>>
    ELSE LET i == CHOOSE k \in 1..Len(s) :
                      s[k] = sep /\ \A j \in 1..(k - 1) : s[j] # sep
         IN  <<SubSeq(s, 1, i - 1)>> \o str_split(SubSeq(s, i + 1, Len(s)), sep)

\* the value of a run of digits with single underscores between digits, or
\* -1 when the text is not such a run
RECURSIVE digits_value(_, _, _)
digits_value(s, acc, after_digit) ==
    IF s = <<>> THEN (IF after_digit THEN acc ELSE -1)
    ELSE IF IsDigit(Head(s))
    THEN digits_value(Tail(s), 10 * acc + (IF Head(s) = "0" THEN 0 ELSE 1), TRUE)
    ELSE IF Head(s) = "_" /\ after_digit
    THEN digits_value(Tail(s), acc, FALSE)
    ELSE -1

\* int(s) : an optional sign, then digits with single underscores allowed
\* between them; anything else is a ValueError
py_int(s) ==
    LET negative == s # <<>> /\ Head(s) = "-"
        body == IF negative THEN Tail(s) ELSE s
        v == digits_value(body, 0, FALSE)
    IN  IF v < 0 THEN [raised |-> "ValueError"]
        ELSE [raised |-> None, value |-> IF negative THEN 0 - v ELSE v]

\* Resolution._is_valid_number_pair
is_valid_number_pair(number_pair) ==
    IF number_pair = <<>> THEN FALSE
    ELSE LET stripped == str_remove(number_pair, " ")
         IN  IF str_contains(stripped, "x") THEN str_count(stripped, "x") = 1
             ELSE IF str_contains(stripped, ":") THEN str_count(stripped, ":") = 1
             ELSE FALSE

PyTupleOf(a, b) == [type |-> "tuple", items |-> <<a, b>>]
PyStrOf(chars) == [type |-> "str", chars |-> chars]

from_number_pair_unchecked(number_pair) ==
    LET make(h, w) == IF h > w THEN [raised |-> None, height |-> w, width |-> h]
                      ELSE [raised |-> None, height |-> h, width |-> w]
    IN  IF number_pair.type = "tuple"
        THEN make(number_pair.items[1], number_pair.items[2])
        ELSE IF ~is_valid_number_pair(number_pair.chars)
        THEN [raised |-> "ValueError"]
        ELSE LET stripped == str_remove(number_pair.chars, " ")
                 separator == IF str_contains(stripped, "x") THEN "x" ELSE ":"
                 parts == str_split(stripped, separator)
                 ints == [i \in 1..Len(parts) |-> py_int(parts[i])]
             IN  IF \E i \in 1..Len(ints) : ints[i].raised # None
                 THEN [raised |-> "ValueError"]
                 ELSE IF Len(ints) # 2 THEN [raised |-> "TypeError"]
                 ELSE make(ints[1].value, ints[2].value)

\* Resolution.from_number_pair : the Resolution, or the exception raised
from_number_pair(number_pair) ==
    IF number_pair.type = "tuple"
    THEN Resolution(number_pair.items[1], number_pair.items[2])
    ELSE IF ~is_valid_number_pair(number_pair.chars)
    THEN [raised |-> "ValueError"]
    ELSE LET stripped == str_remove(number_pair.chars, " ")
             separator == IF str_contains(stripped, "x") THEN "x" ELSE ":"
             parts == str_split(stripped, separator)
             ints == [i \in 1..Len(parts) |-> py_int(parts[i])]
         IN  IF \E i \in 1..Len(ints) : ints[i].raised # None
             THEN [raised |-> "ValueError"]
             ELSE IF Len(ints) # 2 THEN [raised |-> "TypeError"]
             ELSE Resolution(ints[1].value, ints[2].value)

\* the strs of at most n characters
RECURSIVE StrsUpTo(_)
StrsUpTo(n) ==
    IF n = 0 THEN {<<>>}
    ELSE LET shorter == StrsUpTo(n - 1)
         IN  shorter \cup {Append(s, c) : s \in {t \in shorter : Len(t) = n - 1},
                                          c \in NumberPairChars}

\* the arguments from_number_pair is probed with
NumberPairs ==
    {PyTupleOf(a, b) : a \in (0 - 1)..MaxSide, b \in (0 - 1)..MaxSide}
        \cup {PyStrOf(s) : s \in StrsUpTo(MaxStrLen)}

(***************************************************************************)
(* models/models.py : the size catalog of the data model.  The document is *)
(* [iconSizes, macOSIconSizes, maskedIconSizes, sizes]: three lists of     *)
(* ints and a list of (a, b) pairs, in the order of the JSON text.         *)
(***************************************************************************)
\* the longest list of a group in a probed document
MaxSizes == 2

\* process_icon_sizes : [Resolution(size, size) for size in icon_sizes]
process_icon_sizes(icon_sizes) ==
    [i \in 1..Len(icon_sizes) |-> Resolution(icon_sizes[i], icon_sizes[i])]

\* sorted(a set of Resolutions, key=lambda x: (x.width, x.height))
RECURSIVE sorted_by_width_height(_)
sorted_by_width_height(resolutions) ==
    IF resolutions = {} THEN <<>>
    ELSE LET first == CHOOSE x \in resolutions :
                          \A y \in resolutions :
                              \/ x.width < y.width
                              \/ x.width = y.width /\ x.height <= y.height
         IN  <<first>> \o sorted_by_width_height(resolutions \ {first})

\* MsTileModel.process_sizes : sorted(set(starmap(Resolution, value)), ...)
process_sizes(value) ==
    sorted_by_width_height({Resolution(value[i][1], value[i][2]) : i \in 1..Len(value)})

\* get_mad_model(data).size_data : the four groups of the model loaded from
\* a document
get_mad_model(data) ==
    [touch_icons |-> process_icon_sizes(data.iconSizes),
     macos_icons |-> process_icon_sizes(data.macOSIconSizes),
     ms_tiles |-> process_sizes(data.sizes),
     masked_icons |-> process_icon_sizes(data.maskedIconSizes)]

(***************************************************************************)
(* The text of a file name.  A str is the sequence of its pieces: the      *)
(* icon name, a slug, "-", "x", ".png" and decimal digits.                 *)
(***************************************************************************)
DigitChars == <<"0", "1", "2", "3", "4", "5", "6", "7", "8", "9">>

\* str(n) of a non-negative int, as f"{width}x{height}" formats it
RECURSIVE int_str(_)
int_str(n) ==
    IF n < 10 THEN <<DigitChars[n + 1]>>
    ELSE int_str(n \div 10) \o <<DigitChars[(n % 10) + 1]>>

\* "-".join(parts), for the parts of an icon_name_prefix
RECURSIVE hyphen_join(_)
hyphen_join(parts) ==
    IF Len(parts) = 0 THEN <<>>
    ELSE IF Len(parts) = 1 THEN <<parts[1]>>
    ELSE <<parts[1], "-">> \o hyphen_join(Tail(parts))

\* size_formatted = f"{width}x{height}";
\* base_filename = f"{icon_name_prefix}-{size_formatted}.png"
base_filename_str(name) ==
    hyphen_join(name.prefix) \o <<"-">> \o int_str(name.width) \o <<"x">>
        \o int_str(name.height) \o <<".", name.ext>>

\* output_path = output_dir / base_filename : the directory's components and
\* the text of the name
output_path_str(output_path) ==
    [dir |-> output_path.dir, name |-> base_filename_str(output_path.name)]

\* sizes a data model can give a category
ProbeNameSizes == {<<120, 120>>, <<310, 150>>, <<150, 310>>, <<31, 150>>}

(***************************************************************************)
(* models/resolution.py : aspect_ratio_str.  The gcd loop is followed one  *)
(* iteration at a time.                                                    *)
(***************************************************************************)
\* gcd, the body of `while b:` : a, b = b, a % b
gcd_step(a, b) == [a |-> b, b |-> a % b]

aspect_ratio_str_unreduced(self, divisor) ==
    [done |-> TRUE,
     str |-> int_str(self.width) \o <<":">> \o int_str(self.height)]

\* f"{self.width // divisor}:{self.height // divisor}"
aspect_ratio_str(self, divisor) ==
    [done |-> TRUE,
     str |-> int_str(self.width \div divisor) \o <<":">>
                 \o int_str(self.height \div divisor)]

\* the Resolutions aspect_ratio_str is read of
AspectResolutions ==
    {Resolution(h, w) : h \in 1..(2 * MaxSide), w \in 1..(2 * MaxSide)}
        \cup {Resolution(768, 1024)}

(***************************************************************************)
(* process_single_icon : the rendering of one size.  A rendering result is *)
(* [calls, resized, size]: the process_*_icon functions that were called,  *)
(* whether resize_image was called and the pixel size of the image.        *)
(***************************************************************************)
\* resize_image : image.resize((width, height), LANCZOS)
resize_image(image, width, height) == [image EXCEPT !.size = <<width, height>>]

\* process_macos_clipped_icon : the clipped svg is built from the svg text
\* or from the decoded raster, then rendered at width x height
process_macos_clipped_icon(current_source_type, width, height) ==
    [calls |-> {"process_macos_clipped_icon"},
     clip_input |-> IF current_source_type = "svg" THEN "svg" ELSE "raster",
     resized |-> FALSE, size |-> <<width, height>>]

\* process_svg_icon : render_svg_to_png_bytes(source_data, width, height)
process_svg_icon(width, height) ==
    [calls |-> {"process_svg_icon"}, clip_input |-> None,
     resized |-> FALSE, size |-> <<width, height>>]

process_raster_icon_always_resize(source_image, width, height) ==
    [calls |-> {"process_raster_icon"}, clip_input |-> None,
     resized |-> TRUE, size |-> resize_image(source_image, width, height).size]

\* process_raster_icon : decode, resize if img.size != (width, height)
process_raster_icon(source_image, width, height) ==
    LET img == source_image
    IN  IF img.size # <<width, height>>
        THEN [calls |-> {"process_raster_icon"}, clip_input |-> None,
              resized |-> TRUE, size |-> resize_image(img, width, height).size]
        ELSE [calls |-> {"process_raster_icon"}, clip_input |-> None,
              resized |-> FALSE, size |-> img.size]

\* process_single_icon : if needs_clip / elif current_source_type == "svg" /
\* else; source_image is what decoding a raster source gives
processed_img(needs_clip, current_source_type, source_image, width, height) ==
    IF needs_clip
    THEN process_macos_clipped_icon(current_source_type, width, height)
    ELSE IF current_source_type = "svg"
    THEN process_svg_icon(width, height)
    ELSE process_raster_icon(source_image, width, height)

\* a source already at a target size, and one at no target size
ProbeSourceImages ==
    {PilImage("RGBA", "transparent", FALSE, <<120, 120>>),
     PilImage("RGBA", "transparent", FALSE, <<512, 512>>),
     PilImage("RGB", "none", FALSE, <<150, 310>>)}

(***************************************************************************)
(* utilities/icon_generation_utils.py : generate_output_files.  A str is   *)
(* the sequence of its code points; html_tags is a list of str and         *)
(* manifest_icons a list of dicts with a "src" str.                        *)
(***************************************************************************)
\* a < b for two str: the order list.sort() uses
str_lt(a, b) ==
    \E i \in 1..Len(b) :
        /\ i <= Len(a) + 1
        /\ \A j \in 1..(i - 1) : a[j] = b[j]
        /\ (i = Len(a) + 1 \/ a[i] < b[i])

\* the place of item x in an ascending list: behind every item whose key is
\* not greater than its own
RECURSIVE insert_sorted(_, _)
insert_sorted(sorted, x) ==
    IF sorted = <<>> THEN <<x>>
    ELSE IF str_lt(x.key, sorted[Len(sorted)].key)
    THEN Append(insert_sorted(SubSeq(sorted, 1, Len(sorted) - 1), x),
                sorted[Len(sorted)])
    ELSE Append(sorted, x)

RECURSIVE list_sort_unique(_)
list_sort_unique(items) ==
    IF items = <<>> THEN <<>>
    ELSE LET front == SubSeq(items, 1, Len(items) - 1)
         IN  IF \E i \in 1..Len(front) : front[i].key = items[Len(items)].key
             THEN list_sort_unique(front)
             ELSE insert_sorted(list_sort_unique(front), items[Len(items)])

\* list.sort(key=...) on a list of [key, value] items: ascending by key,
\* stable
RECURSIVE list_sort(_)
list_sort(items) ==
    IF items = <<>> THEN <<>>
    ELSE insert_sorted(list_sort(SubSeq(items, 1, Len(items) - 1)),
                       items[Len(items)])

\* html_tags.sort()
sort_html_tags(html_tags_list) ==
    LET sorted == list_sort([i \in 1..Len(html_tags_list) |->
                                [key |-> html_tags_list[i], value |-> html_tags_list[i]]])
    IN  [i \in 1..Len(sorted) |-> sorted[i].value]

\* manifest_icons.sort(key=lambda x: x.get("src", ""))
sort_manifest_icons(manifest_icons_list) ==
    LET sorted == list_sort([i \in 1..Len(manifest_icons_list) |->
                                [key |-> IF "src" \in DOMAIN manifest_icons_list[i]
                                         THEN manifest_icons_list[i].src ELSE <<>>,
                                 value |-> manifest_icons_list[i]]])
    IN  [i \in 1..Len(sorted) |-> sorted[i].value]

\* a file generate_output_files did not write
NoFile == [written |-> FALSE]

generate_output_files_html_error_propagates(html_tags_list, manifest_icons_list, cli_config, html_write, manifest_write) ==
    LET html_attempted == cli_config.generate_html /\ html_tags_list # <<>>
        html_failed == html_attempted /\ html_write # "ok"
        manifest_attempted ==
            ~html_failed /\ cli_config.generate_manifest /\ manifest_icons_list # <<>>
    IN  [html_attempted |-> html_attempted,
         html_file |-> IF html_attempted /\ html_write = "ok"
                       THEN [written |-> TRUE, lines |-> sort_html_tags(html_tags_list)]
                       ELSE NoFile,
         manifest_attempted |-> manifest_attempted,
         manifest_file |-> IF manifest_attempted /\ manifest_write = "ok"
                           THEN [written |-> TRUE, entries |-> sort_manifest_icons(manifest_icons_list)]
                           ELSE NoFile,
         logged |-> (IF manifest_attempted /\ manifest_write # "ok"
                     THEN {<<"manifest", manifest_write>>} ELSE {}),
         raised |-> IF html_failed THEN html_write ELSE None]

\* generate_output_files(html_tags, manifest_icons, output_paths, cli_config).
\* html_write / manifest_write is what the file system and json.dump do with
\* the write: "ok", "OSError", or (json.dump) "TypeError".  html_file is the
\* snippet (its lines between the two banner comments), manifest_file the
\* JSON array; NoFile when the file was not written.
generate_output_files(html_tags_list, manifest_icons_list, cli_config, html_write, manifest_write) ==
    LET html_attempted == cli_config.generate_html /\ html_tags_list # <<>>
        manifest_attempted == cli_config.generate_manifest /\ manifest_icons_list # <<>>
    IN  [html_attempted |-> html_attempted,
         html_file |-> IF html_attempted /\ html_write = "ok"
                       THEN [written |-> TRUE, lines |-> sort_html_tags(html_tags_list)]
                       ELSE NoFile,
         manifest_attempted |-> manifest_attempted,
         manifest_file |-> IF manifest_attempted /\ manifest_write = "ok"
                           THEN [written |-> TRUE, entries |-> sort_manifest_icons(manifest_icons_list)]
                           ELSE NoFile,
         logged |-> (IF html_attempted /\ html_write # "ok"
                     THEN {<<"html", html_write>>} ELSE {})
                      \cup (IF manifest_attempted /\ manifest_write # "ok"
                            THEN {<<"manifest", manifest_write>>} ELSE {}),
         raised |-> None]

(***************************************************************************)
(* generate_icons.py : the generate_icons command.  Its body is a try      *)
(* block of steps, a handler that turns any exception into typer.Exit(1),  *)
(* and a finally block that calls cleanup_resources.  A call the source    *)
(* makes through an interface that is not under src (get_all_flags,        *)
(* IconGenerationContext, the keyword arguments context= / config= and the *)
(* three argument generate_output_files) is modelled with both outcomes,   *)
(* returning and raising; a call that binds to a function under src        *)
(* behaves as that function.                                               *)
(***************************************************************************)
\* the flag values in ascending order of their str value
FlagsByValue ==
    <<IconGenerationFlag.APPLE_TOUCH, IconGenerationFlag.DARKMODE,
      IconGenerationFlag.HTML, IconGenerationFlag.MACOS,
      IconGenerationFlag.MANIFEST, IconGenerationFlag.MASKED,
      IconGenerationFlag.MONOCHROME, IconGenerationFlag.MS_TILES,
      IconGenerationFlag.NO_ICONS, IconGenerationFlag.TINTED>>

\* sorted(set(active_flags), key=lambda f: f.value)
sorted_by_value(flagset) == SelectSeq(FlagsByValue, LAMBDA f : f \in flagset)

\* `if cond: active_flags.append(flag)`
append_if(cond, flag) == IF cond THEN <<flag>> ELSE <<>>

\* generate_icons, step 5: the list active_flags after the appends of the
\* `if no_icons: ... else: ...` statement, in the order of the appends
collected_flags(o) ==
    LET explicit_icon_flags_set ==
            o.masked \/ o.monochrome \/ o.darkmode \/ o.tinted \/ o.macos \/ o.ms_tiles
        icon_flags_from_darkmode ==
            append_if(o.darkmode, IconGenerationFlag.DARKMODE)
              \o append_if(o.tinted, IconGenerationFlag.TINTED)
              \o append_if(o.macos, IconGenerationFlag.MACOS)
              \o append_if(o.ms_tiles, IconGenerationFlag.MS_TILES)
    IN  IF o.no_icons
        THEN append_if(o.html, IconGenerationFlag.HTML)
               \o append_if(o.manifest, IconGenerationFlag.MANIFEST)
               \o append_if(o.masked, IconGenerationFlag.MASKED)
               \o append_if(o.monochrome, IconGenerationFlag.MONOCHROME)
               \o icon_flags_from_darkmode
        ELSE append_if(~explicit_icon_flags_set, IconGenerationFlag.APPLE_TOUCH)
               \o append_if(o.masked, IconGenerationFlag.MASKED)
               \o (IF o.monochrome /\ ~o.masked
                   THEN <<IconGenerationFlag.MASKED, IconGenerationFlag.MONOCHROME>>
                   ELSE append_if(o.monochrome /\ o.masked,
                                  IconGenerationFlag.MONOCHROME))
               \o icon_flags_from_darkmode
               \o append_if(o.html, IconGenerationFlag.HTML)
               \o append_if(o.manifest, IconGenerationFlag.MANIFEST)

active_flags_collection_order(o) == collected_flags(o)

\* generate_icons, step 5: active_flags = sorted(set(active_flags), key=...)
active_flags(o) ==
    sorted_by_value({collected_flags(o)[i] : i \in 1..Len(collected_flags(o))})

\* the boolean options generate_icons is invoked with
GenOptions ==
    [no_icons : BOOLEAN, masked : BOOLEAN, monochrome : BOOLEAN,
     darkmode : BOOLEAN, tinted : {FALSE}, macos : {FALSE}, ms_tiles : {FALSE},
     html : BOOLEAN, manifest : BOOLEAN]

\* the stream parameters of generate_icons
StreamParams ==
    {"base_icon", "masked_icon", "masked_monochrome_icon", "apple_darkmode_icon",
     "apple_tinted_icon", "tile_rectangle_icon", "json_path"}

\* the streams generate_icons is invoked with: present = FALSE is None
GenStreams ==
    {[n \in StreamParams |-> [present |-> n \in supplied, closed |-> FALSE]] :
        supplied \in {{}, {"base_icon"}, {"base_icon", "masked_icon"},
                      {"base_icon", "json_path"},
                      {"base_icon", "masked_icon", "json_path"}}}

\* cleanup_resources : the keys it looks up in cli_args
file_arg_keys ==
    {"icon_image", "masked_image", "masked_image_monochrome", "darkmode_image",
     "tinted_image", "tile_rectangle_image", "json_path"}

\* generate_icons, finally: files_to_close, the list of the streams that are
\* not None
files_to_close(streams) ==
    [type |-> "list", items |-> {n \in StreamParams : streams[n].present}]

\* cleanup_resources(cli_args, opened_json_file).   args.get(key) is the
\* first use of its cli_args, here args: a value that is not a dict has no `get` and the
\* function raises AttributeError before it closes anything.  For a dict
\* (key -> stream) every open stream under a key of file_arg_keys is closed,
\* then opened_json_file; an error of close() is caught.
cleanup_resources(args, opened_json_file, streams) ==
    IF args.type # "dict"
    THEN [streams |-> streams, raised |-> "AttributeError"]
    ELSE [streams |->
            [n \in DOMAIN streams |->
                IF streams[n].present
                   /\ (n = opened_json_file
                       \/ \E key \in file_arg_keys \cap DOMAIN args.items :
                             args.items[key] = n)
                THEN [streams[n] EXCEPT !.closed = TRUE]
                ELSE streams[n]],
          raised |-> None]

\* the steps of the try block before the main loop, in order
generate_icons_steps ==
    <<"retrieve_model", "parse_flags", "prepare_output_directories",
      "validate_and_load_base_icon", "determine_source_images", "active_configs",
      "main_loop", "generate_output_files", "finally">>

step_after(step) ==
    generate_icons_steps[(CHOOSE i \in 1..Len(generate_icons_steps) :
                             generate_icons_steps[i] = step) + 1]

generate_icons_try_ignore_error(g, outcome) ==
    IF outcome = "ok" THEN [g EXCEPT !.pc = step_after(g.pc)]
    ELSE [g EXCEPT !.pc = step_after(g.pc), !.fatal = g.pc, !.pending = "Exit(1)"]

\* generate_icons, one step of the try block: when the step raises, typer.Exit
\* is re-raised and any other Exception becomes typer.Exit(code=1); either
\* way control leaves the try block for the finally block
generate_icons_try(g, outcome) ==
    IF outcome = "ok" THEN [g EXCEPT !.pc = step_after(g.pc)]
    ELSE [g EXCEPT !.pc = "finally", !.fatal = g.pc, !.pending = "Exit(1)"]

\* the (html_tags, manifest_icons) a process_icon_category call returns for a
\* category whose sizes i.. all succeed
RECURSIVE category_html_tags(_, _, _)
category_html_tags(params, sizes, i) ==
    IF i > Len(sizes) THEN <<>>
    ELSE LET r == process_single_icon(params, default_output_paths, sizes[i][1],
                                      sizes[i][2], "ok")
         IN  (IF r.html_tag # NoTag THEN <<r.html_tag>> ELSE <<>>)
                 \o category_html_tags(params, sizes, i + 1)

RECURSIVE category_manifest_icons(_, _, _)
category_manifest_icons(params, sizes, i) ==
    IF i > Len(sizes) THEN <<>>
    ELSE LET r == process_single_icon(params, default_output_paths, sizes[i][1],
                                      sizes[i][2], "ok")
         IN  (IF r.manifest_entry # NoEntry THEN <<r.manifest_entry>> ELSE <<>>)
                 \o category_manifest_icons(params, sizes, i + 1)

StepOutcomes == {"ok", "Exit", "Exception"}

GenInit ==
    /\ probe = [fn |-> "none"]
    /\ pc = "start"
    /\ cli_args = [a \in ArgKeys |-> NoStream]
    /\ base_icon = [arg |-> Stream("base-bytes", "svg"), data |-> None, type |-> ""]
    /\ pwa_model = PwaModel(TouchSizes, MacosSizes, MaskedSizes, MsTileSizes)
    /\ runs = <<>>
    /\ cat = NoCategory
    /\ html_tags = <<>>
    /\ manifest_icons = <<>>
    /\ files = {}
    /\ \E o \in GenOptions, streams \in GenStreams :
          gen = [pc |-> "retrieve_model", opts |-> o, streams |-> streams,
                 active_flags |-> <<>>, idx |-> 0,
                 all_html_tags |-> <<>>, all_manifest_icons |-> <<>>,
                 called |-> <<>>, raised_in |-> {}, skipped |-> {},
                 fatal |-> None, pending |-> None, exc |-> None,
                 written |-> {}, aggregated |-> FALSE, cleanup |-> None]

\* generate_icons, steps 1 to 4: retrieve_model, the flags,
\* prepare_output_directories, has_value(base_icon) and
\* validate_and_load_base_icon, determine_source_images
GenerateIconsStep(outcome) ==
    /\ gen.pc \in {"retrieve_model", "parse_flags", "prepare_output_directories",
                   "validate_and_load_base_icon", "determine_source_images"}
    /\ (gen.pc = "validate_and_load_base_icon" /\ ~gen.streams["base_icon"].present)
          => outcome # "ok"
    /\ gen' = generate_icons_try(gen, outcome)
    /\ UNCHANGED <<probe, pc, cli_args, base_icon, pwa_model, runs, cat, html_tags,
                   manifest_icons, files>>

\* generate_icons, steps 5 and 6: active_flags, active_configs, the context
GenerateIconsActiveConfigs(outcome) ==
    /\ gen.pc = "active_configs"
    /\ gen' = [generate_icons_try(gen, outcome) EXCEPT
                 !.active_flags = IF outcome = "ok" THEN active_flags(gen.opts) ELSE @,
                 !.idx = 1]
    /\ UNCHANGED <<probe, pc, cli_args, base_icon, pwa_model, runs, cat, html_tags,
                   manifest_icons, files>>

main_loop_next_reraise(g, outcome) ==
    IF outcome = "raises"
    THEN [g EXCEPT !.idx = g.idx + 1, !.pc = "finally", !.pending = "Exit(1)"]
    ELSE [g EXCEPT !.idx = g.idx + 1]

\* the main loop after the iteration for the config at idx: `continue`, the
\* end of the try body and the except Exception handler all go on with the
\* next config
main_loop_next(g, outcome) ==
    [g EXCEPT !.idx = g.idx + 1]

\* generate_icons, main loop: one `for config in context.active_configs`
\* iteration.  The process_icon_category call returns its two lists or raises.
GenerateIconsCategory(outcome) ==
    /\ gen.pc = "main_loop"
    /\ gen.idx <= Len(gen.active_flags)
    /\ LET flag == gen.active_flags[gen.idx]
           config == get_flag_config(flag)
           params == extract_category_params(category_config_for(flag))
           sizes == get_target_sizes(pwa_model, params.model_attr)
       IN  IF ~config.is_icon_flag
           THEN gen' = [main_loop_next(gen, "continue") EXCEPT !.skipped = @ \cup {flag}]
           ELSE IF outcome = "returns"
           THEN gen' = [main_loop_next(gen, outcome) EXCEPT
                          !.called = Append(@, flag),
                          !.all_html_tags = @ \o category_html_tags(params, sizes, 1),
                          !.all_manifest_icons =
                              @ \o category_manifest_icons(params, sizes, 1)]
           ELSE gen' = [main_loop_next(gen, outcome) EXCEPT
                          !.called = Append(@, flag),
                          !.raised_in = @ \cup {flag}]
    /\ UNCHANGED <<probe, pc, cli_args, base_icon, pwa_model, runs, cat, html_tags,
                   manifest_icons, files>>

\* generate_icons, step 7: generate_output_files after the loop
GenerateIconsOutputFiles(outcome) ==
    /\ gen.pc = "main_loop"
    /\ gen.idx > Len(gen.active_flags)
    /\ gen' = [generate_icons_try([gen EXCEPT !.pc = "generate_output_files"], outcome)
                 EXCEPT !.written =
                   IF outcome = "ok"
                   THEN (IF gen.opts.html /\ gen.all_html_tags # <<>>
                         THEN {"html"} ELSE {})
                          \cup (IF gen.opts.manifest /\ gen.all_manifest_icons # <<>>
                                THEN {"manifest"} ELSE {})
                   ELSE @,
                 !.aggregated = TRUE]
    /\ UNCHANGED <<probe, pc, cli_args, base_icon, pwa_model, runs, cat, html_tags,
                   manifest_icons, files>>

\* generate_icons, finally: cleanup_resources(files_to_close, opened_json_file);
\* opened_json_file is still the None it was initialised with.  An exception
\* of the finally block replaces the pending one.
GenerateIconsFinally ==
    /\ gen.pc = "finally"
    /\ LET r == cleanup_resources(files_to_close(gen.streams), None, gen.streams)
       IN  gen' = [gen EXCEPT !.pc = "returned", !.streams = r.streams,
                              !.cleanup = r.raised,
                              !.exc = IF r.raised # None THEN r.raised ELSE gen.pending]
    /\ UNCHANGED <<probe, pc, cli_args, base_icon, pwa_model, runs, cat, html_tags,
                   manifest_icons, files>>

\* the exit code of the process: 0 when generate_icons returns normally, 1
\* when typer.Exit(code=1) or any other exception leaves it
exit_code(g) == IF g.exc = None THEN 0 ELSE 1

GenNext ==
    \/ \E outcome \in StepOutcomes : GenerateIconsStep(outcome)
    \/ \E outcome \in StepOutcomes : GenerateIconsActiveConfigs(outcome)
    \/ \E outcome \in {"returns", "raises"} : GenerateIconsCategory(outcome)
    \/ \E outcome \in StepOutcomes : GenerateIconsOutputFiles(outcome)
    \/ GenerateIconsFinally

SpecGenerateIcons == GenInit /\ [][GenNext]_vars

(***************************************************************************)
(* Calls of the registry and of the stateless helpers, each on every input *)
(* of a bounded set; a behaviour makes one call.                           *)
(***************************************************************************)
ProbeSizes == {<<120, 120>>, <<310, 150>>}

\* get_flag_config(flag)
Call_get_flag_config(flag) ==
    /\ probe.fn = "none"
    /\ probe' = [fn |-> "get_flag_config", flag |-> flag,
                 config |-> get_flag_config(flag)]
    /\ UNCHANGED run_vars

\* key.fallback_strategy, then the fallback of the result, and so on: path
\* lists the keys visited
Call_fallback_strategy(key) ==
    /\ probe.fn = "none"
    /\ probe' = [fn |-> "fallback_strategy", path |-> <<key, fallback_strategy(key)>>]
    /\ UNCHANGED run_vars

Follow_fallback_strategy ==
    /\ probe.fn = "fallback_strategy"
    /\ Len(probe.path) <= MaxHops
    /\ probe' = [probe EXCEPT
                   !.path = Append(@, fallback_strategy(probe.path[Len(probe.path)]))]
    /\ UNCHANGED run_vars

\* prepare_output_directories(config); make_dirs creates the first `made`
\* directories of the list and fails on the next one, if any
Call_prepare_output_directories(config, made) ==
    LET dirs_to_create == prepare_dirs_to_create(config)
    IN  /\ probe.fn = "none"
        /\ made \in 0..Len(dirs_to_create)
        /\ probe' = [fn |-> "prepare_output_directories", config |-> config,
                     created |-> make_dirs(SubSeq(dirs_to_create, 1, made)),
                     exit_code |-> IF made < Len(dirs_to_create) THEN 1 ELSE 0,
                     output_paths |-> prepare_output_paths(config)]
        /\ UNCHANGED run_vars

\* process_single_icon(...) with the parameters of a category
Call_process_single_icon(flag, size, outcome) ==
    /\ probe.fn = "none"
    /\ probe' = [fn |-> "process_single_icon", flag |-> flag,
                 width |-> size[1], height |-> size[2], outcome |-> outcome,
                 result |-> process_single_icon(
                               extract_category_params(category_config_for(flag)),
                               default_output_paths, size[1], size[2], outcome)]
    /\ UNCHANGED run_vars

\* the str values of the tags and of the src of the entries
ProbeStrs == {<<1>>, <<1, 2>>, <<2>>}

ProbeEntries ==
    {[src |-> <<2>>, sizes |-> 1], [src |-> <<1>>, sizes |-> 1],
     [src |-> <<1>>, sizes |-> 2]}

\* the lists of at most n items of a set
ListsUpTo(S, n) == UNION {[1..k -> S] : k \in 0..n}

\* generate_output_files(html_tags, manifest_icons, output_paths, cli_config)
Call_generate_output_files(html_tags_list, manifest_icons_list, cli_config, html_write, manifest_write) ==
    /\ probe.fn = "none"
    /\ probe' = [fn |-> "generate_output_files", html_tags |-> html_tags_list,
                 manifest_icons |-> manifest_icons_list, cli_config |-> cli_config,
                 html_write |-> html_write, manifest_write |-> manifest_write,
                 result |-> generate_output_files(html_tags_list, manifest_icons_list,
                                                  cli_config, html_write,
                                                  manifest_write)]
    /\ UNCHANGED run_vars

\* apply_post_processing(img, needs_desat=..., needs_opaque=..., needs_trans=...)
Call_apply_post_processing(img, needs_desat, needs_opaque, needs_trans) ==
    /\ probe.fn = "none"
    /\ probe' = [fn |-> "apply_post_processing", img |-> img,
                 needs_desat |-> needs_desat, needs_opaque |-> needs_opaque,
                 needs_trans |-> needs_trans,
                 result |-> apply_post_processing(img, needs_desat, needs_opaque,
                                                  needs_trans)]
    /\ UNCHANGED run_vars

\* the rendering step of process_single_icon(width, height, ...)
Call_processed_img(needs_clip, current_source_type, source_image, size) ==
    /\ probe.fn = "none"
    /\ probe' = [fn |-> "processed_img", needs_clip |-> needs_clip,
                 current_source_type |-> current_source_type,
                 source_image |-> source_image,
                 width |-> size[1], height |-> size[2],
                 result |-> processed_img(needs_clip, current_source_type,
                                          source_image, size[1], size[2])]
    /\ UNCHANGED run_vars

\* the output_path process_single_icon builds for two (category, size) pairs
\* of one run
Call_output_path(flag, size, other_flag, other_size) ==
    LET path_for(f, sz) ==
            output_path_str(output_path_of(
                extract_category_params(category_config_for(f)),
                default_output_paths, sz[1], sz[2]))
    IN  /\ probe.fn = "none"
        /\ probe' = [fn |-> "output_path", flag |-> flag, size |-> size,
                     other_flag |-> other_flag, other_size |-> other_size,
                     output_path |-> path_for(flag, size),
                     other_output_path |-> path_for(other_flag, other_size)]
        /\ UNCHANGED run_vars

\* Resolution(height, width) and Resolution(other_height, other_width),
\* compared and hashed when both were constructed
Call_Resolution(height, width, other_height, other_width) ==
    LET r == Resolution(height, width)
        o == Resolution(other_height, other_width)
        both == r.raised = None /\ o.raised = None
    IN  /\ probe.fn = "none"
        /\ probe' = [fn |-> "Resolution", args |-> <<height, width>>,
                     other_args |-> <<other_height, other_width>>,
                     self |-> r, other |-> o,
                     eq |-> IF both THEN Resolution_eq(r, o) ELSE FALSE,
                     hashes |-> IF both
                                THEN <<Resolution_hash(r), Resolution_hash(o)>>
                                ELSE <<>>]
        /\ UNCHANGED run_vars

\* Resolution.from_number_pair(number_pair)
Call_from_number_pair(number_pair) ==
    /\ probe.fn = "none"
    /\ probe' = [fn |-> "from_number_pair", number_pair |-> number_pair,
                 result |-> from_number_pair(number_pair)]
    /\ UNCHANGED run_vars

\* self.aspect_ratio_str : divisor = gcd(self.width, self.height) starts
\* with a = width and b = height
Call_aspect_ratio_str(self) ==
    /\ probe.fn = "none"
    /\ probe' = [fn |-> "aspect_ratio_str", self |-> self, a |-> self.width,
                 b |-> self.height, iterations |-> 0, result |-> [done |-> FALSE]]
    /\ UNCHANGED run_vars

\* one iteration of the gcd loop, or, when b is 0, `return a` and the
\* formatting of the string
Step_aspect_ratio_str ==
    /\ probe.fn = "aspect_ratio_str"
    /\ ~probe.result.done
    /\ IF probe.b # 0
       THEN probe' = [probe EXCEPT !.a = gcd_step(probe.a, probe.b).a,
                                   !.b = gcd_step(probe.a, probe.b).b,
                                   !.iterations = @ + 1]
       ELSE probe' = [probe EXCEPT !.result = aspect_ratio_str(probe.self, probe.a)]
    /\ UNCHANGED run_vars

\* the documents get_mad_model is probed with
DataDocuments ==
    [iconSizes : ListsUpTo({120, 180}, MaxSizes),
     macOSIconSizes : ListsUpTo({128}, MaxSizes),
     maskedIconSizes : ListsUpTo({192}, MaxSizes),
     sizes : ListsUpTo({<<150, 150>>, <<310, 150>>, <<150, 310>>}, MaxSizes)]

\* get_mad_model(data).size_data
Call_get_mad_model(data) ==
    /\ probe.fn = "none"
    /\ probe' = [fn |-> "get_mad_model", data |-> data, size_data |-> get_mad_model(data)]
    /\ UNCHANGED run_vars

\* every combination of the boolean options of generate_icons
AllGenOptions ==
    [no_icons : BOOLEAN, masked : BOOLEAN, monochrome : BOOLEAN,
     darkmode : BOOLEAN, tinted : BOOLEAN, macos : BOOLEAN, ms_tiles : BOOLEAN,
     html : BOOLEAN, manifest : BOOLEAN]

\* generate_icons, step 5, for the boolean options o
Call_active_flags(o) ==
    /\ probe.fn = "none"
    /\ probe' = [fn |-> "active_flags", opts |-> o, active_flags |-> active_flags(o)]
    /\ UNCHANGED run_vars

RegistryInit ==
    /\ probe = [fn |-> "none"]
    /\ pc = "start"
    /\ cli_args = [a \in ArgKeys |-> NoStream]
    /\ base_icon = [arg |-> Stream("base-bytes", "svg"), data |-> None, type |-> ""]
    /\ pwa_model = PwaModel(TouchSizes, MacosSizes, MaskedSizes, MsTileSizes)
    /\ runs = <<>>
    /\ cat = NoCategory
    /\ html_tags = <<>>
    /\ manifest_icons = <<>>
    /\ files = {}
    /\ gen = NoInvocation

RegistryNext ==
    \/ /\ probe.fn = "none"
       /\ \E flag \in Flags : Call_get_flag_config(flag)
    \/ /\ probe.fn = "none"
       /\ \E key \in SourceKeys : Call_fallback_strategy(key)
    \/ Follow_fallback_strategy
    \/ /\ probe.fn = "none"
       /\ \E o \in AllGenOptions : Call_active_flags(o)
    \/ /\ probe.fn = "none"
       /\ \E data \in DataDocuments : Call_get_mad_model(data)
    \/ /\ probe.fn = "none"
       /\ \E self \in AspectResolutions : Call_aspect_ratio_str(self)
    \/ Step_aspect_ratio_str
    \/ /\ probe.fn = "none"
       /\ \E config \in PrepDirConfigs, made \in 0..8 :
          Call_prepare_output_directories(config, made)
    \/ /\ probe.fn = "none"
       /\ \E flag \in ImageFlags, size \in ProbeSizes, outcome \in Outcomes :
          Call_process_single_icon(flag, size, outcome)
    \/ /\ probe.fn = "none"
       /\ \E img \in PilImages, needs_desat \in BOOLEAN, needs_opaque \in BOOLEAN,
          needs_trans \in BOOLEAN :
          Call_apply_post_processing(img, needs_desat, needs_opaque, needs_trans)
    \/ /\ probe.fn = "none"
       /\ \E needs_clip \in BOOLEAN, current_source_type \in {"svg", "raster"},
          source_image \in ProbeSourceImages, size \in ProbeSizes :
          Call_processed_img(needs_clip, current_source_type, source_image, size)
    \/ /\ probe.fn = "none"
       /\ \E flag \in ImageFlags, size \in ProbeNameSizes,
          other_flag \in ImageFlags, other_size \in ProbeNameSizes :
          Call_output_path(flag, size, other_flag, other_size)
    \/ /\ probe.fn = "none"
       /\ \E height \in 0..MaxSide, width \in 0..MaxSide,
          other_height \in 0..MaxSide, other_width \in 0..MaxSide :
          Call_Resolution(height, width, other_height, other_width)
    \/ /\ probe.fn = "none"
       /\ \E number_pair \in NumberPairs : Call_from_number_pair(number_pair)
    \/ /\ probe.fn = "none"
       /\ \E html_tags_list \in ListsUpTo(ProbeStrs, MaxTags),
          manifest_icons_list \in ListsUpTo(ProbeEntries, MaxEntries),
          cli_config \in [generate_html : BOOLEAN, generate_manifest : BOOLEAN],
          html_write \in {"ok", "OSError"},
          manifest_write \in {"ok", "OSError", "TypeError"} :
          Call_generate_output_files(html_tags_list, manifest_icons_list, cli_config,
                                     html_write, manifest_write)

SpecRegistry == RegistryInit /\ [][RegistryNext]_vars

Next ==
    \/ \E generate_masked_icons \in BOOLEAN :
          ValidateAndLoadBaseIcon(generate_masked_icons)
    \/ DetermineSourceImages
    \/ \E flag \in ImageFlags : ProcessIconCategory(flag)
    \/ \E outcome \in Outcomes : ProcessSingleIcon(outcome)

Spec == Init /\ [][Next]_vars

(***************************************************************************)
(* Properties                                                              *)
(***************************************************************************)
Resolved == Len(runs) >= 1

\* the CLI argument that supplies a source key explicitly
arg_of_source_key ==
    [k \in SourceKeys \ {IconSourceKey.BASE} |->
        CASE k = IconSourceKey.MASKED -> "masked_image"
          [] k = IconSourceKey.MONOCHROME -> "masked_image_monochrome"
          [] k = IconSourceKey.DARK -> "darkmode_image"
          [] k = IconSourceKey.TINTED -> "tinted_image"
          [] OTHER -> "tile_rectangle_image"]

ExplicitlySupplied(k) ==
    \/ k = IconSourceKey.BASE
    \/ LET arg == cli_args[arg_of_source_key[k]]
       IN  arg.present /\ ~arg.closed /\ arg.data # ""

SuppliedEntry(k) ==
    IF k = IconSourceKey.BASE
    THEN [data |-> base_icon.arg.data, type |-> image_type_of(base_icon.arg.ext)]
    ELSE [data |-> cli_args[arg_of_source_key[k]].data,
          type |-> image_type_of(cli_args[arg_of_source_key[k]].ext)]

ResolvedEntry(run, k) ==
    [data |-> dict_get(run.data, k), type |-> dict_get(run.type, k)]

\* the first explicitly supplied key of the chain k, fallback(k), ...
RECURSIVE FirstSupplied(_)
FirstSupplied(k) ==
    IF ExplicitlySupplied(k) THEN k ELSE FirstSupplied(fallback_strategy(k))

\* C1 (as stated): after determine_source_images, each of the six source keys
\* has a concrete (bytes, format) entry in the returned maps.
C1_Original ==
    Resolved =>
        \A k \in SourceKeys :
            /\ truthy(dict_get(source_data, k))
            /\ dict_get(source_type, k) \in {"svg", "raster"}

\* C2 (as stated): after determine_source_images, the entry of every source
\* key is the entry of the first explicitly supplied key of its fallback chain.
C2_Original ==
    Resolved =>
        \A k \in SourceKeys :
            ResolvedEntry(runs[Len(runs)], k) = SuppliedEntry(FirstSupplied(k))

\* the fallback relation the code implements
FallbackTable ==
    [k \in SourceKeys |->
        CASE k = IconSourceKey.MASKED -> IconSourceKey.BASE
          [] k = IconSourceKey.MONOCHROME -> IconSourceKey.MASKED
          [] k = IconSourceKey.DARK -> IconSourceKey.BASE
          [] k = IconSourceKey.TINTED -> IconSourceKey.DARK
          [] k = IconSourceKey.TILE_RECTANGLE -> IconSourceKey.BASE
          [] OTHER -> IconSourceKey.MASKED]

C4_Original ==
    Len(runs) >= 2 => runs[2] = runs[1]

\* the compatibility table of the specification
CompatibilityTable ==
    [f \in ImageFlags |->
        CASE f = "apple_touch" ->
               [source_key |-> "base", group |-> "touch_icons", subdir |-> <<>>,
                desat |-> FALSE, opaque |-> TRUE, trans |-> FALSE, clip |-> FALSE,
                purpose |-> <<"not_manifested">>]
          [] f = "masked" ->
               [source_key |-> "masked", group |-> "masked_icons",
                subdir |-> <<"masked">>,
                desat |-> FALSE, opaque |-> TRUE, trans |-> FALSE, clip |-> FALSE,
                purpose |-> <<"maskable">>]
          [] f = "monochrome" ->
               [source_key |-> "monochrome", group |-> "masked_icons",
                subdir |-> <<"masked", "monochrome">>,
                desat |-> TRUE, opaque |-> TRUE, trans |-> FALSE, clip |-> FALSE,
                purpose |-> <<"maskable", "monochrome">>]
          [] f = "darkmode" ->
               [source_key |-> "dark", group |-> "touch_icons",
                subdir |-> <<"apple-dark">>,
                desat |-> FALSE, opaque |-> FALSE, trans |-> TRUE, clip |-> FALSE,
                purpose |-> <<"not_manifested">>]
          [] f = "tinted" ->
               [source_key |-> "tinted", group |-> "touch_icons",
                subdir |-> <<"tinted">>,
                desat |-> TRUE, opaque |-> FALSE, trans |-> TRUE, clip |-> FALSE,
                purpose |-> <<"monochrome">>]
          [] f = "macos" ->
               [source_key |-> "base", group |-> "macos_icons",
                subdir |-> <<"macos">>,
                desat |-> FALSE, opaque |-> TRUE, trans |-> FALSE, clip |-> TRUE,
                purpose |-> <<"any">>]
          [] OTHER ->
               [source_key |-> "tile-rectangle", group |-> "ms_tiles",
                subdir |-> <<"mstile">>,
                desat |-> FALSE, opaque |-> TRUE, trans |-> FALSE, clip |-> FALSE,
                purpose |-> <<"not_manifested">>]]

\* C5 (as stated): get_flag_config gives every image flag the source key and
\* the size group of the compatibility table.
C5_Original ==
    (probe.fn = "get_flag_config" /\ probe.config.is_icon_flag) =>
        /\ probe.config.source_key = CompatibilityTable[probe.flag].source_key
        /\ probe.config.model_attr = size_data[CompatibilityTable[probe.flag].group]

\* the components of a subdir string ("" has none; the subdirs of the image
\* flags hold no "/")
subdir_components(sub) == IF sub = "" THEN <<>> ELSE <<sub>>

\* C6 (as stated): the subdir of every image flag is the table value, and
\* prepare_output_directories creates, for every enabled category, the
\* directory base_icon_path/subdir its icons are written into.
C6_Original ==
    /\ (probe.fn = "get_flag_config" /\ probe.config.is_icon_flag) =>
          subdir_components(probe.config.subdir) = CompatibilityTable[probe.flag].subdir
    /\ (probe.fn = "prepare_output_directories" /\ probe.exit_code = 0) =>
          \A f \in ImageFlags :
              category_enabled(probe.config, f) =>
                  setup_output_dir(probe.output_paths.base_icon_path,
                                   get_flag_config(f).subdir) \in probe.created

\* C7: get_flag_config gives every image flag the processing requirements and
\* the manifest purpose of the compatibility table: only monochrome and tinted
\* desaturate, only darkmode and tinted need a transparent background and all
\* the others an opaque one, only macos clips.
C7_Requirements ==
    (probe.fn = "get_flag_config" /\ probe.config.is_icon_flag) =>
        /\ probe.config.needs_desat = CompatibilityTable[probe.flag].desat
        /\ probe.config.needs_opaque = CompatibilityTable[probe.flag].opaque
        /\ probe.config.needs_trans = CompatibilityTable[probe.flag].trans
        /\ probe.config.needs_clip = CompatibilityTable[probe.flag].clip
        /\ probe.config.purpose.parts = CompatibilityTable[probe.flag].purpose
        /\ probe.config.needs_desat = (probe.flag \in {"monochrome", "tinted"})
        /\ probe.config.needs_trans = (probe.flag \in {"darkmode", "tinted"})
        /\ probe.config.needs_opaque = ~probe.config.needs_trans
        /\ probe.config.needs_clip = (probe.flag = "macos")

C7_Witness ==
    /\ probe.fn = "get_flag_config"
    /\ probe.flag = "tinted"
    /\ probe.config.needs_desat /\ probe.config.needs_trans
    /\ ~probe.config.needs_opaque /\ ~probe.config.needs_clip
    /\ probe.config.purpose = PyStr("monochrome")

\* the catalog group and the resolved source of the category being processed
CategoryGroupEmpty(flag) == pwa_model[get_flag_config(flag).model_attr] = <<>>

CategorySourceAbsent(flag) ==
    ~truthy(dict_get(source_data, get_flag_config(flag).source_key))

ProbeRelativePath ==
    relative_path_of(
        output_path_of(extract_category_params(category_config_for(probe.flag)),
                       default_output_paths, probe.width, probe.height),
        default_output_paths).path

\* C9 (as stated): for a successfully processed size, every category except
\* Apple Touch and Dark Mode gets a manifest entry {src, sizes, type:
\* "image/png"}; the purpose is omitted when it is "any"; a pair purpose
\* becomes one string of both values joined by a space.
C9_Original ==
    (probe.fn = "process_single_icon" /\ probe.outcome = "ok") =>
        LET entry == probe.result.manifest_entry
            purpose == CompatibilityTable[probe.flag].purpose
        IN  IF probe.flag \in {"apple_touch", "darkmode"}
            THEN entry = NoEntry
            ELSE /\ entry # NoEntry
                 /\ entry.src = ProbeRelativePath
                 /\ entry.sizes = <<probe.width, probe.height>>
                 /\ entry.type = "image/png"
                 /\ IF purpose = <<"any">>
                    THEN "purpose" \notin DOMAIN entry
                    ELSE /\ "purpose" \in DOMAIN entry
                         /\ entry.purpose = [type |-> "str", parts |-> purpose]

\* C10: for a successfully processed size the HTML tag depends on the
\* category only: Apple Touch gives <link rel="apple-touch-icon" sizes="WxH"
\* href=...>, Dark Mode the same tag with the dark media query, MS Tiles a
\* <meta> named msapplication-square{WxH}logo when width = height and
\* msapplication-wide{WxH}logo otherwise; the other categories give no tag.
C10_HtmlTag ==
    (probe.fn = "process_single_icon" /\ probe.outcome = "ok") =>
        LET tag == probe.result.html_tag
        IN  CASE probe.flag \in {"apple_touch", "darkmode"} ->
                   /\ tag.elem = "link"
                   /\ tag.rel = "apple-touch-icon"
                   /\ tag.width = probe.width /\ tag.height = probe.height
                   /\ tag.target = ProbeRelativePath
                   /\ tag.media = IF probe.flag = "darkmode"
                                  THEN "(prefers-color-scheme: dark)" ELSE None
              [] probe.flag = "ms_tiles" ->
                   /\ tag.elem = "meta"
                   /\ tag.name = IF probe.width = probe.height
                                 THEN "msapplication-square" ELSE "msapplication-wide"
                   /\ tag.width = probe.width /\ tag.height = probe.height
                   /\ tag.target = ProbeRelativePath
              [] OTHER -> tag = NoTag

C10_Witness ==
    /\ probe.fn = "process_single_icon"
    /\ probe.outcome = "ok"
    /\ probe.flag = "ms_tiles"
    /\ probe.width = 310 /\ probe.height = 150
    /\ probe.result.html_tag.elem = "meta"
    /\ probe.result.html_tag.name = "msapplication-wide"

\* the tags / entries process_single_icon gives for the attempts i.. of a list
\* of attempts, in the order of the attempts
RECURSIVE TagsOfAttempts(_, _, _)
TagsOfAttempts(flag, attempts, i) ==
    IF i > Len(attempts) THEN <<>>
    ELSE LET a == attempts[i]
             r == process_single_icon(extract_category_params(category_config_for(flag)),
                                      default_output_paths, a.size[1], a.size[2], "ok")
         IN  (IF a.outcome = "ok" /\ r.html_tag # NoTag THEN <<r.html_tag>> ELSE <<>>)
                 \o TagsOfAttempts(flag, attempts, i + 1)

RECURSIVE EntriesOfAttempts(_, _, _)
EntriesOfAttempts(flag, attempts, i) ==
    IF i > Len(attempts) THEN <<>>
    ELSE LET a == attempts[i]
             r == process_single_icon(extract_category_params(category_config_for(flag)),
                                      default_output_paths, a.size[1], a.size[2], "ok")
         IN  (IF a.outcome = "ok" /\ r.manifest_entry # NoEntry
              THEN <<r.manifest_entry>> ELSE <<>>)
                 \o EntriesOfAttempts(flag, attempts, i + 1)

ImageFlagsOf(flags) == SelectSeq(flags, LAMBDA f : ~is_not_icon_flag(f))

\* the concatenated lists of the categories i.. of `called` that did not raise
RECURSIVE TagsOfCalled(_, _)
TagsOfCalled(called, i) ==
    IF i > Len(called) THEN <<>>
    ELSE LET params == extract_category_params(category_config_for(called[i]))
             sizes == get_target_sizes(pwa_model, params.model_attr)
         IN  (IF called[i] \in gen.raised_in THEN <<>>
              ELSE category_html_tags(params, sizes, 1))
                 \o TagsOfCalled(called, i + 1)

RECURSIVE EntriesOfCalled(_, _)
EntriesOfCalled(called, i) ==
    IF i > Len(called) THEN <<>>
    ELSE LET params == extract_category_params(category_config_for(called[i]))
             sizes == get_target_sizes(pwa_model, params.model_attr)
         IN  (IF called[i] \in gen.raised_in THEN <<>>
              ELSE category_manifest_icons(params, sizes, 1))
                 \o EntriesOfCalled(called, i + 1)

PreLoopSteps ==
    {"retrieve_model", "parse_flags", "prepare_output_directories",
     "validate_and_load_base_icon", "determine_source_images", "active_configs"}

\* C12: once generate_icons has reached its main loop, an error raised by the
\* call for one category does not end the run: process_icon_category has been
\* called for every active image category before the current one, in order,
\* whether or not an earlier one raised; the aggregated lists hold the tags and
\* entries of exactly the categories that returned; and when the loop is over
\* generate_output_files has been called.
C12_CategoryIsolation ==
    (gen.pc \in {"main_loop", "finally", "returned"} /\ gen.fatal \notin PreLoopSteps) =>
        /\ gen.called = ImageFlagsOf(SubSeq(gen.active_flags, 1, gen.idx - 1))
        /\ gen.all_html_tags = TagsOfCalled(gen.called, 1)
        /\ gen.all_manifest_icons = EntriesOfCalled(gen.called, 1)
        /\ gen.pc # "main_loop" =>
              /\ gen.idx = Len(gen.active_flags) + 1
              /\ gen.aggregated

C12_Witness ==
    /\ gen.pc = "returned"
    /\ gen.called = <<"darkmode", "masked", "monochrome">>
    /\ gen.raised_in = {"masked"}
    /\ Len(gen.all_html_tags) = 2
    /\ Len(gen.all_manifest_icons) = 2
    /\ gen.aggregated
    /\ gen.written = {"html", "manifest"}

FatalSteps ==
    {"retrieve_model", "prepare_output_directories", "validate_and_load_base_icon"}

\* C13: when loading the catalog, creating the directories or loading the
\* required base image fails, no category is processed and no HTML snippet or
\* manifest fragment is written, and the invocation ends with a non-zero exit
\* code; a missing base image makes the base image step fail.
C13_FatalAborts ==
    /\ (gen.pc # "none" /\ gen.fatal \in FatalSteps) =>
          /\ gen.pc \in {"finally", "returned"}
          /\ gen.called = <<>>
          /\ gen.all_html_tags = <<>> /\ gen.all_manifest_icons = <<>>
          /\ ~gen.aggregated
          /\ gen.written = {}
          /\ gen.pc = "returned" => exit_code(gen) # 0
    /\ (gen.pc \in {"determine_source_images", "active_configs", "main_loop"}) =>
          gen.streams["base_icon"].present

C13_Witness ==
    /\ gen.pc = "returned"
    /\ gen.fatal = "prepare_output_directories"
    /\ gen.opts.masked /\ gen.opts.html /\ ~gen.opts.no_icons
    /\ gen.called = <<>>
    /\ gen.written = {}
    /\ exit_code(gen) = 1

\* C14 (as stated): when generate_icons has returned, on whatever path, every
\* stream that was supplied is closed, and the cleanup step did not raise.
C14_Original ==
    gen.pc = "returned" =>
        /\ \A n \in StreamParams : gen.streams[n].present => gen.streams[n].closed
        /\ gen.cleanup = None

\* a list holds exactly the items of another one, each as often
SameItems(a, b) ==
    /\ Len(a) = Len(b)
    /\ \A x \in {a[i] : i \in 1..Len(a)} \cup {b[i] : i \in 1..Len(b)} :
          Cardinality({i \in 1..Len(a) : a[i] = x})
              = Cardinality({i \in 1..Len(b) : b[i] = x})

\* C15: generate_output_files writes the HTML snippet exactly when HTML
\* generation is enabled and there is at least one tag (and the write itself
\* succeeds), its lines in ascending lexicographic order; it writes the
\* manifest fragment exactly when manifest generation is enabled and there is
\* at least one entry, the entries in ascending order of src; each file holds
\* exactly the collected tags / entries.
C15_Aggregation ==
    probe.fn = "generate_output_files" =>
        LET r == probe.result
        IN  /\ r.html_attempted
                  = (probe.cli_config.generate_html /\ probe.html_tags # <<>>)
            /\ r.html_file.written = (r.html_attempted /\ probe.html_write = "ok")
            /\ r.html_file.written =>
                  /\ SameItems(r.html_file.lines, probe.html_tags)
                  /\ \A i, j \in 1..Len(r.html_file.lines) :
                        i < j => ~str_lt(r.html_file.lines[j], r.html_file.lines[i])
            /\ r.manifest_attempted
                  = (probe.cli_config.generate_manifest /\ probe.manifest_icons # <<>>)
            /\ r.manifest_file.written
                  = (r.manifest_attempted /\ probe.manifest_write = "ok")
            /\ r.manifest_file.written =>
                  /\ SameItems(r.manifest_file.entries, probe.manifest_icons)
                  /\ \A i, j \in 1..Len(r.manifest_file.entries) :
                        i < j => ~str_lt(r.manifest_file.entries[j].src,
                                         r.manifest_file.entries[i].src)

C15_Witness ==
    /\ probe.fn = "generate_output_files"
    /\ probe.html_tags = <<<<2>>, <<1, 2>>, <<1>>>>
    /\ probe.manifest_icons = <<[src |-> <<2>>, sizes |-> 1], [src |-> <<1>>, sizes |-> 2]>>
    /\ probe.cli_config.generate_html /\ probe.cli_config.generate_manifest
    /\ probe.result.html_file.written
    /\ probe.result.html_file.lines = <<<<1>>, <<1, 2>>, <<2>>>>
    /\ probe.result.manifest_file.written
    /\ probe.result.manifest_file.entries
          = <<[src |-> <<1>>, sizes |-> 2], [src |-> <<2>>, sizes |-> 1]>>

\* C16: no failure of a write leaves generate_output_files as an exception;
\* a failed write of the HTML snippet is logged and the manifest fragment is
\* still attempted (and written when its own write succeeds); a failed write
\* or serialization of the manifest fragment is logged.
C16_IndependentWrites ==
    probe.fn = "generate_output_files" =>
        LET r == probe.result
        IN  /\ r.raised = None
            /\ (r.html_attempted /\ probe.html_write # "ok") =>
                  /\ <<"html", probe.html_write>> \in r.logged
                  /\ r.manifest_attempted
                        = (probe.cli_config.generate_manifest
                             /\ probe.manifest_icons # <<>>)
                  /\ (r.manifest_attempted /\ probe.manifest_write = "ok")
                        => r.manifest_file.written
            /\ (r.manifest_attempted /\ probe.manifest_write # "ok") =>
                  /\ <<"manifest", probe.manifest_write>> \in r.logged
                  /\ ~r.manifest_file.written
                  /\ (r.html_attempted /\ probe.html_write = "ok")
                        => r.html_file.written

C16_Witness ==
    /\ probe.fn = "generate_output_files"
    /\ probe.html_write = "OSError"
    /\ probe.result.html_attempted
    /\ ~probe.result.html_file.written
    /\ probe.result.manifest_attempted
    /\ probe.result.manifest_file.written
    /\ probe.result.raised = None

SlugOfCategory(flag) ==
    CASE flag = IconGenerationFlag.MASKED -> "android-masked"
      [] flag = IconGenerationFlag.MONOCHROME -> "android-monochrome"
      [] flag = IconGenerationFlag.DARKMODE -> "apple-dark-mode"
      [] flag = IconGenerationFlag.TINTED -> "apple-tinted"
      [] flag = IconGenerationFlag.MACOS -> "macos"
      [] flag = IconGenerationFlag.MS_TILES -> "ms-tiles"
      [] OTHER -> ""

\* C19: the file name of a (category, size) pair is
\* {prefix}-{category-slug}-{width}x{height}.png, and {prefix}-{width}x{height}.png
\* for the Apple Touch category; two different (category, size) pairs of one
\* run have different output paths.
C19_FileNames ==
    probe.fn = "output_path" =>
        /\ probe.output_path.name
              = <<default_icon_name>>
                  \o (IF probe.flag = IconGenerationFlag.APPLE_TOUCH THEN <<>>
                      ELSE <<"-", SlugOfCategory(probe.flag)>>)
                  \o <<"-">> \o int_str(probe.size[1]) \o <<"x">>
                  \o int_str(probe.size[2]) \o <<".", "png">>
        /\ (<<probe.flag, probe.size>> # <<probe.other_flag, probe.other_size>>)
              => probe.output_path # probe.other_output_path

C19_Witness ==
    /\ probe.fn = "output_path"
    /\ probe.flag = IconGenerationFlag.APPLE_TOUCH
    /\ probe.other_flag = IconGenerationFlag.MS_TILES
    /\ probe.size = <<310, 150>>
    /\ probe.other_size = <<31, 150>>
    /\ probe.output_path.name = <<"icon", "-", "3", "1", "0", "x", "1", "5", "0", ".", "png">>
    /\ probe.other_output_path.name
          = <<"icon", "-", "ms-tiles", "-", "3", "1", "x", "1", "5", "0", ".", "png">>

PairMax(p) == IF p[1] >= p[2] THEN p[1] ELSE p[2]
PairMin(p) == IF p[1] <= p[2] THEN p[1] ELSE p[2]

\* C20: a Resolution constructed from a positive pair has width = the larger
\* and height = the smaller of the two numbers, so width >= height; the
\* Resolutions of (a, b) and of (b, a) are equal and have equal hashes; two
\* Resolutions are equal exactly when their (width, height) pairs are, and
\* equal Resolutions have equal hashes.
C20_CanonicalResolution ==
    (/\ probe.fn = "Resolution"
     /\ \A i \in 1..2 : probe.args[i] > 0 /\ probe.other_args[i] > 0) =>
        /\ probe.self.raised = None /\ probe.other.raised = None
        /\ probe.self.width = PairMax(probe.args)
        /\ probe.self.height = PairMin(probe.args)
        /\ probe.self.width >= probe.self.height
        /\ probe.other_args = <<probe.args[2], probe.args[1]>> =>
              (probe.eq /\ probe.hashes[1] = probe.hashes[2])
        /\ probe.eq <=> (/\ PairMax(probe.args) = PairMax(probe.other_args)
                         /\ PairMin(probe.args) = PairMin(probe.other_args))
        /\ probe.eq => probe.hashes[1] = probe.hashes[2]

C20_Witness ==
    /\ probe.fn = "Resolution"
    /\ probe.args = <<3, 1>>
    /\ probe.other_args = <<1, 3>>
    /\ probe.self = [raised |-> None, height |-> 1, width |-> 3]
    /\ probe.eq
    /\ probe.hashes[1] = probe.hashes[2]

\* C21: the constructor fails whenever one of its two inputs is <= 0, and
\* from_number_pair fails for a tuple with an item <= 0 and for a string
\* such as "0x1" or "-1x1" whose parsed numbers are not both positive; a
\* Resolution that was created has a positive width and a positive height.
C21_PositiveDimensions ==
    /\ probe.fn = "Resolution" =>
          /\ (probe.args[1] <= 0 \/ probe.args[2] <= 0) =>
                probe.self.raised = "ValueError"
          /\ probe.self.raised = None =>
                (probe.self.height > 0 /\ probe.self.width > 0)
    /\ probe.fn = "from_number_pair" =>
          /\ probe.result.raised = None =>
                (probe.result.height > 0 /\ probe.result.width > 0)
          /\ (/\ probe.number_pair.type = "tuple"
              /\ \E i \in 1..2 : probe.number_pair.items[i] <= 0) =>
                probe.result.raised = "ValueError"
          /\ (/\ probe.number_pair.type = "str"
              /\ probe.number_pair.chars
                    \in {<<"0", "x", "1">>, <<"1", ":", "0">>, <<"-", "1", "x", "1">>,
                         <<"0", " ", "x", "1">>}) =>
                probe.result.raised = "ValueError"

C21_Witness ==
    /\ probe.fn = "from_number_pair"
    /\ probe.number_pair = PyStrOf(<<"0", "x", "1">>)
    /\ probe.result = [raised |-> "ValueError"]

\* a non-empty run of decimal digits
DigitsOnly(s) == s # <<>> /\ \A i \in 1..Len(s) : IsDigit(s[i])

\* the positions at which a str, spaces removed, reads W x H or W : H
SeparatorPositions(st) ==
    {i \in 1..Len(st) : /\ st[i] \in {"x", ":"}
                        /\ DigitsOnly(SubSeq(st, 1, i - 1))
                        /\ DigitsOnly(SubSeq(st, i + 1, Len(st)))}

\* C22: from_number_pair returns the canonical Resolution of the two numbers
\* for a two-element tuple and for a string that, spaces removed, reads
\* "WxH" or "W:H" with W and H runs of digits; for every other string it
\* fails with a ValueError and returns no Resolution.
C22_Original ==
    probe.fn = "from_number_pair" =>
        LET canonical(a, b) ==
                [raised |-> None, height |-> PairMin(<<a, b>>),
                 width |-> PairMax(<<a, b>>)]
        IN  IF probe.number_pair.type = "tuple"
            THEN (\A i \in 1..2 : probe.number_pair.items[i] > 0) =>
                   probe.result = canonical(probe.number_pair.items[1],
                                            probe.number_pair.items[2])
            ELSE LET st == str_remove(probe.number_pair.chars, " ")
                     seps == SeparatorPositions(st)
                 IN  /\ seps = {} => probe.result.raised = "ValueError"
                     /\ \A i \in seps :
                          LET w == digits_value(SubSeq(st, 1, i - 1), 0, FALSE)
                              h == digits_value(SubSeq(st, i + 1, Len(st)), 0, FALSE)
                          IN  (w > 0 /\ h > 0) => probe.result = canonical(w, h)

\* the greatest common divisor, by its definition
GreatestCommonDivisor(m, n) ==
    CHOOSE d \in 1..m : /\ m % d = 0 /\ n % d = 0
                        /\ \A e \in 1..m : (m % e = 0 /\ n % e = 0) => e <= d

\* C23: aspect_ratio_str is "W:H" with W = width / gcd(width, height) and
\* H = height / gcd(width, height), so W and H have no common divisor but 1
\* and W >= H; the gcd loop ends: its b stays >= 0 and gets smaller with
\* every iteration, so it runs at most height times.
C23_AspectRatioStr ==
    probe.fn = "aspect_ratio_str" =>
        LET self == probe.self
            g == GreatestCommonDivisor(self.width, self.height)
            W == self.width \div g
            H == self.height \div g
        IN  /\ probe.b >= 0
            /\ probe.iterations + probe.b <= self.height
            /\ probe.result.done =>
                  /\ probe.b = 0 /\ probe.a = g
                  /\ probe.result.str = int_str(W) \o <<":">> \o int_str(H)
                  /\ GreatestCommonDivisor(W, H) = 1
                  /\ W >= H
                  /\ self.width = self.height =>
                        probe.result.str = <<"1", ":", "1">>

C23_Witness ==
    /\ probe.fn = "aspect_ratio_str"
    /\ probe.self = Resolution(768, 1024)
    /\ probe.iterations = 2
    /\ probe.result = [done |-> TRUE, str |-> <<"4", ":", "3">>]

\* a list of Resolutions without duplicates, ascending by (width, height)
SortedWithoutDuplicates(group) ==
    \A i \in 1..Len(group), j \in 1..Len(group) :
        i < j => \/ group[i].width < group[j].width
                 \/ /\ group[i].width = group[j].width
                    /\ group[i].height < group[j].height

\* C24: in the loaded size catalog each of the groups touch_icons,
\* macos_icons, ms_tiles and masked_icons has no duplicate Resolution and is
\* sorted ascending by (width, height), whatever the order and the
\* multiplicity of the entries of the document.
C24_Original ==
    probe.fn = "get_mad_model" =>
        /\ SortedWithoutDuplicates(probe.size_data.touch_icons)
        /\ SortedWithoutDuplicates(probe.size_data.macos_icons)
        /\ SortedWithoutDuplicates(probe.size_data.ms_tiles)
        /\ SortedWithoutDuplicates(probe.size_data.masked_icons)

NonImageFlags ==
    {IconGenerationFlag.NO_ICONS, IconGenerationFlag.HTML, IconGenerationFlag.MANIFEST}

\* C25: for no_icons, html and manifest get_flag_config returns a config
\* with is_icon_flag = False and none of the image keys (source key, catalog
\* group, purpose, processing flags); the main loop skips every such config
\* and calls the category processor for image categories only.
C25_NonImageFlags ==
    /\ \A flag \in NonImageFlags :
          LET config == get_flag_config(flag)
          IN  /\ ~config.is_icon_flag
              /\ DOMAIN config = {"flag_key", "name", "subdir", "is_icon_flag"}
    /\ gen.pc # "none" =>
          /\ \A i \in 1..Len(gen.called) : gen.called[i] \notin NonImageFlags
          /\ gen.skipped \subseteq NonImageFlags
          /\ (gen.pc \in {"main_loop", "finally", "returned"}
                /\ gen.fatal \notin PreLoopSteps) =>
                gen.skipped
                  = {gen.active_flags[i] : i \in 1..(gen.idx - 1)} \cap NonImageFlags

C25_Witness ==
    /\ gen.pc = "returned"
    /\ gen.active_flags = <<"html", "manifest", "masked">>
    /\ gen.skipped = {"html", "manifest"}
    /\ gen.called = <<"masked">>

\* the place of a flag in the ascending order of the flag values
PlaceByValue(flag) == CHOOSE i \in 1..Len(FlagsByValue) : FlagsByValue[i] = flag

\* the sizes of the categories i.. of `called` that returned and whose icons
\* get an HTML tag, in the order of the catalog
RECURSIVE TagSizesOfCalled(_, _)
TagSizesOfCalled(called, i) ==
    IF i > Len(called) THEN <<>>
    ELSE LET params == extract_category_params(category_config_for(called[i]))
         IN  (IF called[i] \in gen.raised_in
                  \/ params.cat_name \notin {"Apple Touch", "Apple Dark Mode", "MS Tiles"}
              THEN <<>>
              ELSE get_target_sizes(pwa_model, params.model_attr))
                 \o TagSizesOfCalled(called, i + 1)

\* C26: the categories are processed one after another in the ascending
\* order of their flag values, an order fixed by the set of active
\* categories alone; no category is processed twice; and the tags of a
\* category follow the order of its sizes in the catalog.
C26_SequentialOrder ==
    (gen.pc \in {"main_loop", "finally", "returned"} /\ gen.fatal \notin PreLoopSteps) =>
        /\ gen.active_flags
              = sorted_by_value({gen.active_flags[i] : i \in 1..Len(gen.active_flags)})
        /\ \A i \in 1..Len(gen.active_flags), j \in 1..Len(gen.active_flags) :
              i < j => PlaceByValue(gen.active_flags[i]) < PlaceByValue(gen.active_flags[j])
        /\ \A i \in 1..Len(gen.called), j \in 1..Len(gen.called) :
              i < j => PlaceByValue(gen.called[i]) < PlaceByValue(gen.called[j])
        /\ gen.called = ImageFlagsOf(SubSeq(gen.active_flags, 1, gen.idx - 1))
        /\ [i \in 1..Len(gen.all_html_tags) |->
               <<gen.all_html_tags[i].width, gen.all_html_tags[i].height>>]
              = TagSizesOfCalled(gen.called, 1)

C26_Witness ==
    /\ gen.pc = "returned"
    /\ ~gen.opts.no_icons
    /\ collected_flags(gen.opts) = <<"masked", "darkmode", "html">>
    /\ gen.active_flags = <<"darkmode", "html", "masked">>
    /\ gen.called = <<"darkmode", "masked">>
    /\ gen.raised_in = {}
    /\ Len(gen.all_html_tags) = 2
    /\ gen.all_html_tags[1].width = 120 /\ gen.all_html_tags[2].width = 180

\* the flag is one of the active flags of the probed options
IsActive(flag) ==
    \E i \in 1..Len(probe.active_flags) : probe.active_flags[i] = flag

\* C27 (as stated): with no_icons off, masked disabled and monochrome
\* enabled make Monochrome active and Masked not active; masked disabled and
\* monochrome disabled make neither active; masked enabled makes Masked
\* active.
C27_Original ==
    probe.fn = "active_flags" =>
        /\ (~probe.opts.no_icons /\ ~probe.opts.masked /\ probe.opts.monochrome) =>
              (IsActive(IconGenerationFlag.MONOCHROME)
                 /\ ~IsActive(IconGenerationFlag.MASKED))
        /\ (~probe.opts.no_icons /\ ~probe.opts.masked /\ ~probe.opts.monochrome) =>
              (~IsActive(IconGenerationFlag.MONOCHROME)
                 /\ ~IsActive(IconGenerationFlag.MASKED))
        /\ probe.opts.masked => IsActive(IconGenerationFlag.MASKED)

\* C28 (as stated): Apple Touch is active exactly when no_icons is false,
\* whatever the other category flags are; with no_icons every category whose
\* own flag is true is still active.
C28_Original ==
    probe.fn = "active_flags" =>
        /\ IsActive(IconGenerationFlag.APPLE_TOUCH) <=> ~probe.opts.no_icons
        /\ probe.opts.no_icons =>
              /\ probe.opts.masked <=> IsActive(IconGenerationFlag.MASKED)
              /\ probe.opts.monochrome <=> IsActive(IconGenerationFlag.MONOCHROME)
              /\ probe.opts.darkmode <=> IsActive(IconGenerationFlag.DARKMODE)
              /\ probe.opts.tinted <=> IsActive(IconGenerationFlag.TINTED)
              /\ probe.opts.macos <=> IsActive(IconGenerationFlag.MACOS)
              /\ probe.opts.ms_tiles <=> IsActive(IconGenerationFlag.MS_TILES)

\* the relative paths of the icon files written so far
WrittenRelativePaths ==
    {relative_path_of(f, default_output_paths).path :
        f \in {g \in files : relative_path_of(g, default_output_paths).error = None}}

\* the sizes of the attempts of the current category that failed
FailedSizes ==
    {cat.attempts[i].size :
        i \in {k \in 1..Len(cat.attempts) : cat.attempts[k].outcome # "ok"}}

\* C29: every HTML tag and every manifest entry of the lists refers to an
\* icon file that was saved in this run, and a size whose transform,
\* post-processing or save failed has neither a tag nor an entry.
C29_MetadataOnlyForFiles ==
    (cat.state \in {"loop", "returned"} /\ cat.skipped = None) =>
        /\ \A i \in 1..Len(html_tags) :
              /\ html_tags[i].target \in WrittenRelativePaths
              /\ <<html_tags[i].width, html_tags[i].height>> \notin FailedSizes
        /\ \A i \in 1..Len(manifest_icons) :
              /\ manifest_icons[i].src \in WrittenRelativePaths
              /\ manifest_icons[i].sizes \notin FailedSizes
        /\ Cardinality(files) + Cardinality(FailedSizes) = Len(cat.attempts)

C29_Witness ==
    /\ cat.state = "returned"
    /\ cat.flag = "apple_touch"
    /\ Len(cat.attempts) = 2
    /\ cat.attempts[1].outcome = "ok"
    /\ cat.attempts[2].outcome = "transform_error"
    /\ Len(html_tags) = 1 /\ html_tags[1].width = 120
    /\ html_tags[1].target \in WrittenRelativePaths
    /\ Cardinality(files) = 1

\* C30 (as stated): a category whose manifest purpose is not_manifested
\* (Apple Touch, Dark Mode, MS Tiles) gets no manifest entry, and no manifest
\* entry has the purpose "not_manifested".
C30_Original ==
    probe.fn = "process_single_icon" =>
        LET entry == probe.result.manifest_entry
        IN  /\ probe.flag \in {IconGenerationFlag.APPLE_TOUCH,
                               IconGenerationFlag.DARKMODE,
                               IconGenerationFlag.MS_TILES} => entry = NoEntry
            /\ (entry # NoEntry /\ "purpose" \in DOMAIN entry) =>
                  ManifestPurpose.NOT_MANIFESTED
                      \notin {entry.purpose.parts[i] : i \in 1..Len(entry.purpose.parts)}

====
